---- MODULE Spec2Model ----
(***************************************************************************)
(* State-machine model of the Google Ads MCP tool handlers                 *)
(* (src/ads_mcp/tools/*.py): the credential resolver get_ads_client with   *)
(* its module-level cache _ADS_CLIENT, and the handlers that resolve the   *)
(* client, apply the per-call login_customer_id, obtain a service and      *)
(* issue their remote calls.                                               *)
(*                                                                         *)
(* Python values: a str is a TLA+ string and the Python None of a str      *)
(* parameter is the value None below; an optional int is <<>> (None) or    *)
(* <<n>>; a list is a sequence.  A handler invocation is a frame held by   *)
(* one of the dispatcher's slots (Procs).                                  *)
(***************************************************************************)
EXTENDS Naturals, Sequences, FiniteSets

VARIABLES
  env,            \* os.environ, restricted to the variables api.py reads
  cred_file,      \* what is stored at the credentials path (google-ads.yaml)
  _ADS_CLIENT,    \* api.py module global: NoHandle or the cached handle
  heap,           \* the live GoogleAdsClient objects, by identity
  remote,         \* what the remote service holds (budgets, campaigns created)
  pc,             \* per slot: position of the running handler
  frame,          \* per slot: the running handler's name, arguments and locals
  calls,          \* per slot: the remote calls the running invocation has issued
  result          \* per slot: what the invocation returned or raised

vars == <<env, cred_file, _ADS_CLIENT, heap, remote, pc, frame, calls, result>>

(***************************************************************************)
(* Bounds of the model.                                                    *)
(***************************************************************************)
MaxBudgets == 2       \* budgets the remote service is followed up to
MaxQueryPieces == 2   \* pieces that follow the SELECT ... FROM of a raw query

Procs == {"t1", "t2"}

None == "None"        \* Python None (for str-typed values)
NoInt == <<>>         \* Python None (for int-typed values); an int n is <<n>>
NoList == <<>>        \* Python None (for list-typed values); a list l is <<l>>
NoHandle == 0         \* _ADS_CLIENT = None; handles are numbered from 1

\* Python truthiness of an optional str: None and "" are falsy.
Truthy(s) == s # None /\ s # ""

(***************************************************************************)
(* The environment and the credentials file.                               *)
(***************************************************************************)
RequiredEnv == {"GOOGLE_ADS_DEVELOPER_TOKEN", "GOOGLE_ADS_CLIENT_ID",
                "GOOGLE_ADS_CLIENT_SECRET", "GOOGLE_ADS_REFRESH_TOKEN"}
LoginEnv == "GOOGLE_ADS_LOGIN_CUSTOMER_ID"
EnvVars == RequiredEnv \cup {LoginEnv}

\* Values a required variable takes: unset, set to the empty string, set.
SecretValues == {None, "", "secret"}
\* Values of GOOGLE_ADS_LOGIN_CUSTOMER_ID: unset, a dashed id, only a dash.
LoginEnvValues == {None, "12-34", "-"}

\* What the file at the credentials path is: missing; a YAML mapping with or
\* without a developer_token key; or a file yaml.safe_load reads as no
\* mapping at all (an empty or comment-only file loads as None).
FileKinds == {"absent", "mapping_with_developer_token",
              "mapping_without_developer_token", "empty"}

\* login_customer_id.replace("-", "").strip() on the values of LoginEnvValues
\* (os.environ.get(..., "") turns an unset variable into "").
StripDashes(s) ==
  CASE s = None    -> ""
    [] s = "12-34" -> "1234"
    [] s = "-"     -> ""
    [] OTHER       -> s

\* A GoogleAdsClient object: how it was built, its developer token, the
\* login_customer_id it was constructed with and its current (mutable) one.
NewHandle(source, dev_token, login) ==
  [source |-> source, developer_token |-> dev_token,
   constructed_login |-> login, login_customer_id |-> login]

\* _get_client_from_env: the client loaded from the four required variables
\* (found), or None (not found) when one of them is unset or empty.
_get_client_from_env(e) ==
  IF \E v \in RequiredEnv : ~Truthy(e[v])
  THEN [found |-> FALSE]
  ELSE [found |-> TRUE,
        handle |-> NewHandle("env", e["GOOGLE_ADS_DEVELOPER_TOKEN"],
                     IF StripDashes(e[LoginEnv]) # ""
                     THEN StripDashes(e[LoginEnv]) ELSE None)]

\* GoogleAdsClient.load_from_storage(cred_path) on an existing file: a mapping
\* loads (its developer_token is the file's, or None); a file that holds no
\* mapping is rejected by the library.
load_from_storage(kind) ==
  IF kind = "empty"
  THEN [found |-> FALSE]
  ELSE [found |-> TRUE,
        handle |-> NewHandle("file",
                     IF kind = "mapping_with_developer_token"
                     THEN "file-secret" ELSE None,
                     None)]

\* The items of the ValueError raised when no credentials are found: the
\* header and the two numbered lines of the message.
NoCredentialsHeader == "No Google Ads credentials found. Provide either:"
EnvironmentItem == "1. Environment variables: GOOGLE_ADS_DEVELOPER_TOKEN, GOOGLE_ADS_CLIENT_ID, GOOGLE_ADS_CLIENT_SECRET, GOOGLE_ADS_REFRESH_TOKEN"
YamlFileItem == "2. A google-ads.yaml file (set path via GOOGLE_ADS_CREDENTIALS env var)"
NoCredentialsMessage == <<NoCredentialsHeader, EnvironmentItem, YamlFileItem>>

Raise(type, message) == [kind |-> "raise", type |-> type, message |-> message]
Return(value) == [kind |-> "return", value |-> value]
NoResult == [kind |-> "none"]

\* The access-token branch of get_ads_client (api.py 98-114): the developer
\* token comes from the environment or, failing that, from the credentials
\* file when it exists; the handle is built anew and the cache is not touched.
\* Variant of the access token branch that keeps the handle it builds in the
\* cache.
TokenClient_cached(e, file) ==
  LET env_token == e["GOOGLE_ADS_DEVELOPER_TOKEN"]
      login_cid == IF StripDashes(e[LoginEnv]) # ""
                   THEN StripDashes(e[LoginEnv]) ELSE None
  IN  IF Truthy(env_token) \/ file = "absent"
      THEN [kind |-> "built", cache |-> TRUE,
            handle |-> NewHandle("token", env_token, login_cid)]
      ELSE IF file = "empty"
      THEN Raise("AttributeError", <<"'NoneType' object has no attribute 'get'">>)
      ELSE [kind |-> "built", cache |-> TRUE,
            handle |-> NewHandle("token",
                         IF file = "mapping_with_developer_token"
                         THEN "file-secret" ELSE None,
                         login_cid)]

TokenClient(e, file) ==
  LET env_token == e["GOOGLE_ADS_DEVELOPER_TOKEN"]
      login_cid == IF StripDashes(e[LoginEnv]) # ""
                   THEN StripDashes(e[LoginEnv]) ELSE None
  IN  IF Truthy(env_token) \/ file = "absent"
      THEN [kind |-> "built", cache |-> FALSE,
            handle |-> NewHandle("token", env_token, login_cid)]
      ELSE IF file = "empty"
      THEN \* yaml.safe_load gives None, and None has no .get
           Raise("AttributeError", <<"'NoneType' object has no attribute 'get'">>)
      ELSE [kind |-> "built", cache |-> FALSE,
            handle |-> NewHandle("token",
                         IF file = "mapping_with_developer_token"
                         THEN "file-secret" ELSE None,
                         login_cid)]


\* Variant of ResolveClient without the os.path.isfile test: a missing file
\* is handed to load_from_storage, which cannot open it.
ResolveClient_no_isfile(e, file) ==
  IF _get_client_from_env(e).found
  THEN [kind |-> "built", cache |-> TRUE,
        handle |-> _get_client_from_env(e).handle]
  ELSE IF file # "absent" /\ load_from_storage(file).found
  THEN [kind |-> "built", cache |-> TRUE,
        handle |-> load_from_storage(file).handle]
  ELSE Raise("FileNotFoundError", <<"No such file or directory">>)

\* The branch of get_ads_client taken with no access token and no cached
\* handle (api.py 116-133): environment first, then the credentials file.
ResolveClient(e, file) ==
  IF _get_client_from_env(e).found
  THEN [kind |-> "built", cache |-> TRUE,
        handle |-> _get_client_from_env(e).handle]
  ELSE IF file = "absent"
  THEN Raise("ValueError", NoCredentialsMessage)
  ELSE IF load_from_storage(file).found
  THEN [kind |-> "built", cache |-> TRUE,
        handle |-> load_from_storage(file).handle]
  ELSE Raise("Exception", <<"load_from_storage: no configuration mapping">>)


\* Variant of get_ads_client that never looks at the cached handle: every
\* call without an access token resolves the credentials again.
get_ads_client_uncached(access_token, e, file, cached) ==
  IF Truthy(access_token)
  THEN TokenClient(e, file)
  ELSE ResolveClient(e, file)

\* get_ads_client(): access_token is what get_access_token() yields for the
\* request (None, or its .token); cached is _ADS_CLIENT.  The outcome is
\* "cached" (the cached handle is returned), "built" (a new handle, stored
\* in the cache when cache is TRUE) or "raise".
get_ads_client(access_token, e, file, cached) ==
  IF Truthy(access_token)
  THEN TokenClient(e, file)
  ELSE IF cached = NoHandle
  THEN ResolveClient(e, file)
  ELSE [kind |-> "cached"]

(***************************************************************************)
(* Handler invocations.                                                    *)
(***************************************************************************)
\* Inputs the invocations are drawn from.
CustomerId == "1"
LoginArgs == {None, "", "777"}
AccessTokens == {None, "ya29.token"}
StatusArgs == {"PAUSED", "BOGUS"}
Faults == {<<"E1">>, <<"E1", "E2">>}   \* exc.failure.errors, each as str(error)

\* The frame of a slot that runs no handler.
IdleFrame ==
  [tool |-> "none", args |-> [login_customer_id |-> None],
   access_token |-> None, ads_client |-> NoHandle, service_login |-> None,
   built |-> <<>>, local |-> <<>>]

\* "\n".join(str(error) for error in exc.failure.errors)
RECURSIVE JoinLines(_)
JoinLines(errors) ==
  IF Len(errors) = 0 THEN <<>>
  ELSE IF Len(errors) = 1 THEN <<errors[1]>>
  ELSE <<errors[1], "\n">> \o JoinLines(Tail(errors))

\* except GoogleAdsException as exc: raise ToolError("\n".join(...)) from exc
FaultToToolError(errors) == Raise("ToolError", JoinLines(errors))

\* The member names of the enum types the handlers look names up in.
EnumMembers(enum_type) ==
  CASE enum_type = "KeywordMatchTypeEnum" ->
         {"UNSPECIFIED", "UNKNOWN", "EXACT", "PHRASE", "BROAD"}
    [] enum_type = "AdvertisingChannelTypeEnum" ->
         {"UNSPECIFIED", "UNKNOWN", "SEARCH", "DISPLAY", "SHOPPING", "VIDEO"}
    [] OTHER -> {"UNSPECIFIED", "UNKNOWN", "ENABLED", "PAUSED", "REMOVED"}

\* _enum_value(enum_type, value, field_name): the member, or ToolError.
_enum_value(enum_type, value, field_name) ==
  IF value \in EnumMembers(enum_type)
  THEN Return(value)
  ELSE Raise("ToolError", <<"Invalid ", field_name, ": ", value>>)

\* service.campaign_path and the other *_path helpers: a resource name, kept
\* as its "/"-separated segments.
ResourcePath(customer_id, collection, id) ==
  <<"customers", customer_id, collection, id>>

Finish(p, res) ==
  /\ result' = [result EXCEPT ![p] = res]
  /\ pc' = [pc EXCEPT ![p] = "done"]

Goto(p, label) ==
  /\ pc' = [pc EXCEPT ![p] = label]
  /\ UNCHANGED result

\* A remote call leaves the process under the login customer id the service
\* object was created with.  It is recorded with its outcome: fault is the
\* errors of the GoogleAdsException the call raised (<<>> when it returned)
\* and response is what it returned (<<>> when it raised).
RemoteCall(p, method, request, fault, response) ==
  [method |-> method, login_customer_id |-> frame[p].service_login,
   request |-> request, fault |-> fault, response |-> response]

Issue(p, method, request, fault, response) ==
  calls' = [calls EXCEPT ![p] =
              Append(@, RemoteCall(p, method, request, fault, response))]

\* The call raises GoogleAdsException inside the handler's try block, whose
\* except clause raises the ToolError.
Faulted(p, method, request) ==
  \E errors \in Faults :
    /\ Issue(p, method, request, errors, <<>>)
    /\ Finish(p, FaultToToolError(errors))

(***************************************************************************)
(* GAQL text.  A str that holds a query is the sequence of the pieces it   *)
(* was put together from; string concatenation is \o.  What the code asks  *)
(* of a query is whether a keyword occurs in it, and a keyword occurs in a *)
(* query when it occurs in one of its pieces (every piece that follows     *)
(* another starts with a blank or is a separator, so no keyword straddles  *)
(* two pieces).                                                            *)
(***************************************************************************)
\* The pieces that follow "SELECT a FROM b" in the raw queries given to
\* execute_gaql: PARAMETERS clauses with and without the two parameters
\* (one in lower case), string literals that spell the keywords, a LIMIT.
QueryPieces ==
  {" PARAMETERS include_drafts=true",
   " PARAMETERS omit_unselected_resource_names=false",
   " PARAMETERS other_parameter=true",
   " parameters include_drafts=true",
   " WHERE campaign.name = 'PARAMETERS'",
   " WHERE campaign.name = 'include_drafts'",
   " LIMIT 5"}

\* The conditions and orderings search_ads is given.
ConditionStrings ==
  {"campaign.status = 'ENABLED'", "metrics.impressions > 100",
   "campaign.name = 'PARAMETERS include_drafts'"}
OrderingStrings == {"metrics.impressions DESC", "campaign.id"}

\* The keywords ("omit_unselected_resource_names", "PARAMETERS",
\* "include_drafts") that occur in a piece, as the in operator finds them:
\* as substrings, case-sensitively.
Mentions(piece) ==
  CASE piece = " PARAMETERS include_drafts=true" ->
         {"PARAMETERS", "include_drafts"}
    [] piece = " PARAMETERS omit_unselected_resource_names=false" ->
         {"PARAMETERS", "omit_unselected_resource_names"}
    [] piece = " PARAMETERS other_parameter=true" -> {"PARAMETERS"}
    [] piece = " parameters include_drafts=true" -> {"include_drafts"}
    [] piece = " WHERE campaign.name = 'PARAMETERS'" -> {"PARAMETERS"}
    [] piece = " WHERE campaign.name = 'include_drafts'" -> {"include_drafts"}
    [] piece = "campaign.name = 'PARAMETERS include_drafts'" ->
         {"PARAMETERS", "include_drafts"}
    [] piece = " omit_unselected_resource_names=true" ->
         {"omit_unselected_resource_names"}
    [] piece = " PARAMETERS omit_unselected_resource_names=true" ->
         {"PARAMETERS", "omit_unselected_resource_names"}
    [] OTHER -> {}

\* keyword in query
In(keyword, query) ==
  \E i \in 1..Len(query) : keyword \in Mentions(query[i])

\* Variant that appends without looking for the flag in the query.
preprocess_gaql_unconditional(query) ==
  IF In("PARAMETERS", query) /\ In("include_drafts", query)
  THEN query \o <<" omit_unselected_resource_names=true">>
  ELSE query \o <<" PARAMETERS omit_unselected_resource_names=true">>

\* Variant that always opens a new PARAMETERS clause.
preprocess_gaql_new_clause(query) ==
  IF ~In("omit_unselected_resource_names", query)
  THEN query \o <<" PARAMETERS omit_unselected_resource_names=true">>
  ELSE query

\* Variant that extends any query mentioning PARAMETERS.
preprocess_gaql_any_parameters(query) ==
  IF ~In("omit_unselected_resource_names", query)
  THEN IF In("PARAMETERS", query)
       THEN query \o <<" omit_unselected_resource_names=true">>
       ELSE query \o <<" PARAMETERS omit_unselected_resource_names=true">>
  ELSE query

\* preprocess_gaql, api.py 152-158
preprocess_gaql(query) ==
  IF ~In("omit_unselected_resource_names", query)
  THEN IF In("PARAMETERS", query) /\ In("include_drafts", query)
       THEN query \o <<" omit_unselected_resource_names=true">>
       ELSE query \o <<" PARAMETERS omit_unselected_resource_names=true">>
  ELSE query

\* separator.join(strings)
RECURSIVE Join(_, _)
Join(strings, separator) ==
  IF Len(strings) = 0 THEN <<>>
  ELSE IF Len(strings) = 1 THEN <<strings[1]>>
  ELSE <<strings[1], separator>> \o Join(Tail(strings), separator)

\* f"{limit}": the decimal digits of a non-negative int.
Digit(d) == <<"0", "1", "2", "3", "4", "5", "6", "7", "8", "9">>[d + 1]
RECURSIVE IntToStr(_)
IntToStr(n) ==
  IF n < 10 THEN <<Digit(n)>>
  ELSE IntToStr(n \div 10) \o <<Digit(n % 10)>>

\* Python truthiness of an optional list: None and [] are falsy.
TruthyList(l) == l # NoList /\ l[1] # <<>>

\* Variant that tests the limit for truthiness.
search_ads_query_truthy_limit(args) ==
  LET select == <<"SELECT ">> \o Join(args.fields, ", ")
                  \o <<" FROM ", args.resource>>
      where == IF TruthyList(args.conditions)
               THEN <<" WHERE ">> \o Join(args.conditions[1], " AND ")
               ELSE <<>>
      order == IF TruthyList(args.orderings)
               THEN <<" ORDER BY ">> \o Join(args.orderings[1], ", ")
               ELSE <<>>
      limit == IF args.limit # NoInt /\ args.limit[1] # 0
               THEN <<" LIMIT ">> \o IntToStr(args.limit[1])
               ELSE <<>>
  IN  select \o where \o order \o limit

\* search_ads, api.py 281-292: the query as built, before preprocessing.
search_ads_query(args) ==
  LET select == <<"SELECT ">> \o Join(args.fields, ", ")
                  \o <<" FROM ", args.resource>>
      where == IF TruthyList(args.conditions)
               THEN <<" WHERE ">> \o Join(args.conditions[1], " AND ")
               ELSE <<>>
      order == IF TruthyList(args.orderings)
               THEN <<" ORDER BY ">> \o Join(args.orderings[1], ", ")
               ELSE <<>>
      limit == IF args.limit # NoInt
               THEN <<" LIMIT ">> \o IntToStr(args.limit[1])
               ELSE <<>>
  IN  select \o where \o order \o limit

\* The raw queries: "SELECT a FROM b" followed by up to n pieces.
RECURSIVE QueriesUpTo(_)
QueriesUpTo(n) ==
  IF n = 0 THEN {<<"SELECT a FROM b">>}
  ELSE QueriesUpTo(n - 1) \cup
       {q \o <<piece>> : q \in QueriesUpTo(n - 1), piece \in QueryPieces}
RawQueries == QueriesUpTo(MaxQueryPieces)

\* The arguments search_ads builds queries from.
SearchArgs ==
  [customer_id : {CustomerId}, resource : {"campaign"},
   fields : {<<"campaign.id">>, <<"campaign.id", "campaign.name">>},
   conditions : {NoList, <<<<>>>>} \cup
                {<<<<c>>>> : c \in ConditionStrings} \cup
                {<<<<"campaign.status = 'ENABLED'", c>>>> :
                   c \in ConditionStrings \ {"campaign.status = 'ENABLED'"}},
   orderings : {NoList, <<<<>>>>, <<<<"metrics.impressions DESC">>>>,
                <<<<"metrics.impressions DESC", "campaign.id">>>>},
   limit : {NoInt, <<0>>, <<5>>, <<10000>>},
   login_customer_id : {None}]

(***************************************************************************)
(* Customer Match identifiers.  An email or a phone number is the sequence *)
(* of its characters.                                                      *)
(***************************************************************************)
Email1 == <<" ", "A", "@", "x", " ">>
Email2 == <<"a", " ", "@", "X">>
Phone1 == <<"+", "1", " ", "5">>

IsSpace(c) == c \in {" ", "\t", "\n"}

\* str.lower() of a character
Lower(c) ==
  CASE c = "A" -> "a"
    [] c = "X" -> "x"
    [] OTHER   -> c

\* str.strip()
RECURSIVE LStrip(_)
LStrip(value) ==
  IF Len(value) > 0 /\ IsSpace(Head(value)) THEN LStrip(Tail(value)) ELSE value
RECURSIVE RStrip(_)
RStrip(value) ==
  IF Len(value) > 0 /\ IsSpace(value[Len(value)])
  THEN RStrip(SubSeq(value, 1, Len(value) - 1))
  ELSE value
Strip(value) == RStrip(LStrip(value))

\* "".join(normalized.split())
RemoveAllWhitespace(value) ==
  LET NotSpace(c) == ~IsSpace(c) IN SelectSeq(value, NotSpace)

\* hashlib.sha256(...).hexdigest(): the digest stands for the text hashed
\* (no two texts of the model share a digest).
Sha256HexDigest(text) == [sha256 |-> text]

\* Variant that only trims and lower-cases.
_normalize_and_hash_trim_only(value, remove_all_whitespace) ==
  LET stripped == Strip(value)
  IN  Sha256HexDigest([i \in 1..Len(stripped) |-> Lower(stripped[i])])

\* _normalize_and_hash(value, remove_all_whitespace)
_normalize_and_hash(value, remove_all_whitespace) ==
  LET stripped == Strip(value)
      lowered == [i \in 1..Len(stripped) |-> Lower(stripped[i])]
      normalized == IF remove_all_whitespace
                    THEN RemoveAllWhitespace(lowered)
                    ELSE lowered
  IN  Sha256HexDigest(normalized)

\* Variant that builds create operations whatever remove is.
_build_job_operations_create_only(emails, phone_numbers, remove) ==
  [i \in 1..Len(emails) |->
     [kind |-> "create",
      user_identifiers |->
        <<[hashed_email |-> _normalize_and_hash(emails[i], TRUE)]>>]]
  \o
  [i \in 1..Len(phone_numbers) |->
     [kind |-> "create",
      user_identifiers |->
        <<[hashed_phone_number |->
             _normalize_and_hash(phone_numbers[i], TRUE)]>>]]

\* _build_offline_user_data_job_operations(ads_client, emails,
\* phone_numbers, remove)
_build_offline_user_data_job_operations(emails, phone_numbers, remove) ==
  [i \in 1..Len(emails) |->
     [kind |-> IF remove THEN "remove" ELSE "create",
      user_identifiers |->
        <<[hashed_email |-> _normalize_and_hash(emails[i], TRUE)]>>]]
  \o
  [i \in 1..Len(phone_numbers) |->
     [kind |-> IF remove THEN "remove" ELSE "create",
      user_identifiers |->
        <<[hashed_phone_number |->
             _normalize_and_hash(phone_numbers[i], TRUE)]>>]]

\* emails or [] (and phone_numbers or [])
OrEmpty(l) == IF l = NoList THEN <<>> ELSE l[1]

(***************************************************************************)
(* The tools and the arguments they are invoked with.                      *)
(***************************************************************************)
\* The arguments of each tool as the caller supplies them; an optional
\* parameter the caller omits is None (NoInt for an int).
ToolArgs(tool) ==
  CASE tool = "list_accessible_accounts" ->
         [login_customer_id : {None}]
    [] tool = "execute_gaql" ->
         [query : {<<"SELECT a FROM b">>},
          customer_id : {CustomerId}, login_customer_id : LoginArgs]
    [] tool = "search_ads" ->
         [customer_id : {CustomerId}, resource : {"campaign"},
          fields : {<<"campaign.id">>}, conditions : {NoList},
          orderings : {NoList}, limit : {NoInt},
          login_customer_id : LoginArgs]
    [] tool = "update_campaign_status" ->
         [customer_id : {CustomerId}, campaign_id : {"10"},
          status : StatusArgs, login_customer_id : LoginArgs]
    [] tool = "create_campaign" ->
         [customer_id : {CustomerId}, name : {"Sale"},
          advertising_channel_type : {"SEARCH", "BOGUS"},
          status : {None} \cup StatusArgs,
          budget_amount_micros : {NoInt, <<0>>, <<5000000>>},
          login_customer_id : {None, "777"}]
    [] tool = "update_campaign_budget" ->
         [customer_id : {CustomerId}, campaign_id : {"10"},
          budget_amount_micros : {<<0>>, <<5000000>>},
          login_customer_id : {None, "777"}]
    [] tool = "create_ad_group" ->
         [customer_id : {CustomerId}, campaign_id : {"10"},
          name : {None, "", "Shoes"}, cpc_bid_micros : {NoInt, <<0>>},
          status : {None} \cup StatusArgs,
          login_customer_id : {None, "777"}]
    [] tool = "update_ad_group" ->
         [customer_id : {CustomerId}, ad_group_id : {"20"},
          status : {None} \cup StatusArgs, name : {None, "", "Shoes"},
          cpc_bid_micros : {NoInt, <<0>>, <<250000>>},
          login_customer_id : {None, "777"}]
    [] tool = "add_keywords" ->
         [customer_id : {CustomerId}, ad_group_id : {"20"},
          keywords : {<<>>, <<"shoes">>, <<"shoes", "boots">>},
          match_type : {None, "EXACT", "BOGUS"},
          login_customer_id : {None, "777"}]
    [] tool = "update_keyword_status" ->
         [customer_id : {CustomerId}, criterion_id : {"40"},
          ad_group_id : {"20"}, status : StatusArgs,
          login_customer_id : {None, "777"}]
    [] tool = "add_negative_keywords" ->
         [customer_id : {CustomerId}, campaign_id : {"10"},
          keywords : {<<>>, <<"free">>, <<"free", "cheap">>},
          login_customer_id : {None, "777"}]
    [] tool = "update_ad_status" ->
         [customer_id : {CustomerId}, ad_id : {"30"},
          status : StatusArgs, login_customer_id : {None, "777"}]
    [] tool = "upload_offline_conversion" ->
         [customer_id : {CustomerId}, conversion_action_id : {"7"},
          gclid : {"Cj0KCQ"},
          conversion_date_time : {"2026-01-01 12:00:00+00:00"},
          conversion_value : {NoInt, <<10>>}, currency_code : {None, "EUR"},
          login_customer_id : {None}]
    [] tool = "generate_keyword_ideas" ->
         [customer_id : {CustomerId},
          keywords : {<<>>, <<"shoes", "boots">>},
          page_url : {None, "", "https://example.com"},
          language_id : {"1000"},
          geo_target_ids : {NoList, <<<<"2840">>>>},
          start_year : {NoInt, <<2024>>},
          start_month : {None, "march", "SMARCH"},
          end_year : {NoInt, <<2026>>},
          end_month : {None, "DECEMBER"},
          login_customer_id : {None, "777"}]
    [] tool = "create_responsive_search_ad" ->
         [customer_id : {CustomerId}, ad_group_id : {"20"},
          headlines : {<<>>, <<"H1">>, <<"H1", "H2", "H3">>},
          descriptions : {<<>>, <<"D1", "D2">>},
          final_urls : {<<>>, <<"https://example.com">>},
          login_customer_id : {None, "777"}]
    [] tool \in {"add_customer_list_members",
                 "remove_customer_list_members"} ->
         [customer_id : {CustomerId}, user_list_id : {"9"},
          emails : {NoList, <<<<>>>>, <<<<Email1>>>>, <<<<Email1, Email2>>>>},
          phone_numbers : {NoList, <<<<Phone1>>>>},
          login_customer_id : {None}]

\* A parameter's default value, bound when the caller omits the argument.
Default(value, default) == IF value = None THEN default ELSE value

\* list_accessible_accounts takes no login_customer_id.
HasLoginParam(tool) == tool # "list_accessible_accounts"

\* The environments the handler specifications start in: all four required
\* variables set (with and without a login customer id), or nothing set.
EnvWith(secret, login) ==
  [v \in EnvVars |-> IF v = LoginEnv THEN login ELSE secret]

(***************************************************************************)
(* Local validation done before the client handle is asked for.            *)
(***************************************************************************)

\* Variant of update_ad_group without its at-least-one-of check.
update_ad_group_precheck_missing(args) == NoResult

\* update_ad_group, ad_groups.py 117-120
update_ad_group_precheck(args) ==
  IF args.status = None /\ args.name = None /\ args.cpc_bid_micros = NoInt
  THEN Raise("ToolError",
             <<"At least one of status, name, or cpc_bid_micros is required">>)
  ELSE NoResult


\* Variant of the add_keywords check that tests "keywords is None" instead
\* of "not keywords": an empty list passes.
add_keywords_precheck_is_none(args) == NoResult

\* add_keywords, keywords.py 54-55
add_keywords_precheck(args) ==
  IF Len(args.keywords) = 0
  THEN Raise("ToolError", <<"keywords must not be empty">>)
  ELSE NoResult

\* add_negative_keywords, keywords.py 178-179
add_negative_keywords_precheck(args) ==
  IF Len(args.keywords) = 0
  THEN Raise("ToolError", <<"keywords must not be empty">>)
  ELSE NoResult

\* generate_keyword_ideas, keyword_planner.py 64-65
generate_keyword_ideas_precheck(args) ==
  IF Len(args.keywords) = 0 /\ ~Truthy(args.page_url)
  THEN Raise("ToolError",
             <<"At least one of keywords or page_url is required">>)
  ELSE NoResult

\* Variant that checks the three lists in the opposite order.
create_responsive_search_ad_precheck_reversed(args) ==
  IF Len(args.final_urls) = 0
  THEN Raise("ToolError", <<"final_urls must not be empty">>)
  ELSE IF Len(args.descriptions) = 0
  THEN Raise("ToolError", <<"descriptions must not be empty">>)
  ELSE IF Len(args.headlines) = 0
  THEN Raise("ToolError", <<"headlines must not be empty">>)
  ELSE NoResult

\* create_responsive_search_ad, ads.py 56-61
create_responsive_search_ad_precheck(args) ==
  IF Len(args.headlines) = 0
  THEN Raise("ToolError", <<"headlines must not be empty">>)
  ELSE IF Len(args.descriptions) = 0
  THEN Raise("ToolError", <<"descriptions must not be empty">>)
  ELSE IF Len(args.final_urls) = 0
  THEN Raise("ToolError", <<"final_urls must not be empty">>)
  ELSE NoResult

\* add_customer_list_members, audiences.py 145-148, and
\* remove_customer_list_members, audiences.py 230-233
customer_list_members_precheck(args) ==
  IF OrEmpty(args.emails) = <<>> /\ OrEmpty(args.phone_numbers) = <<>>
  THEN Raise("ToolError",
             <<"At least one of emails or phone_numbers is required">>)
  ELSE NoResult

\* The statements of each handler that precede its get_ads_client() call.
Precheck(tool, args) ==
  CASE tool = "update_ad_group"       -> update_ad_group_precheck(args)
    [] tool \in {"add_customer_list_members", "remove_customer_list_members"}
                                      -> customer_list_members_precheck(args)
    [] tool = "add_keywords"          -> add_keywords_precheck(args)
    [] tool = "add_negative_keywords" -> add_negative_keywords_precheck(args)
    [] tool = "create_responsive_search_ad"
                                      -> create_responsive_search_ad_precheck(args)
    [] tool = "generate_keyword_ideas"
                                      -> generate_keyword_ideas_precheck(args)
    [] OTHER                          -> NoResult

(***************************************************************************)
(* The steps every handler shares.                                         *)
(***************************************************************************)
\* The dispatcher calls the tool in slot p with the request's arguments and
\* access token.
Invoke(p, tool, args, access_token) ==
  /\ pc[p] = "idle"
  /\ tool = "create_campaign" => remote.budgets < MaxBudgets
  /\ pc' = [pc EXCEPT ![p] = "start"]
  /\ frame' = [frame EXCEPT ![p] =
                 [IdleFrame EXCEPT !.tool = tool, !.args = args,
                                   !.access_token = access_token]]
  /\ calls' = [calls EXCEPT ![p] = <<>>]
  /\ result' = [result EXCEPT ![p] = NoResult]
  /\ UNCHANGED <<env, cred_file, _ADS_CLIENT, heap, remote>>

\* The handler's statements up to its get_ads_client() call.
Start(p) ==
  /\ pc[p] = "start"
  /\ LET r == Precheck(frame[p].tool, frame[p].args)
     IN  IF r.kind = "raise"
         THEN Finish(p, r)
         ELSE Goto(p, "get_ads_client")
  /\ UNCHANGED <<env, cred_file, _ADS_CLIENT, heap, remote, frame, calls>>

\* The identity given to a newly constructed GoogleAdsClient.
FreshHandle == CHOOSE h \in 1..(Cardinality(DOMAIN heap) + 1) : h \notin DOMAIN heap

\* ads_client = get_ads_client()
GetAdsClient(p) ==
  /\ pc[p] = "get_ads_client"
  /\ LET r == get_ads_client(frame[p].access_token, env, cred_file, _ADS_CLIENT)
         next == IF HasLoginParam(frame[p].tool) THEN "set_login" ELSE "get_service"
     IN  CASE r.kind = "raise" ->
                /\ Finish(p, r)
                /\ UNCHANGED <<_ADS_CLIENT, heap, frame>>
           [] r.kind = "cached" ->
                /\ frame' = [frame EXCEPT ![p].ads_client = _ADS_CLIENT]
                /\ Goto(p, next)
                /\ UNCHANGED <<_ADS_CLIENT, heap>>
           [] r.kind = "built" ->
                /\ heap' = [h \in DOMAIN heap \cup {FreshHandle} |->
                              IF h = FreshHandle THEN r.handle ELSE heap[h]]
                /\ _ADS_CLIENT' = IF r.cache THEN FreshHandle ELSE _ADS_CLIENT
                /\ frame' = [frame EXCEPT ![p].ads_client = FreshHandle]
                /\ Goto(p, next)
  /\ UNCHANGED <<env, cred_file, remote, calls>>

\* if login_customer_id: ads_client.login_customer_id = login_customer_id
SetLogin(p) ==
  /\ pc[p] = "set_login"
  /\ heap' = IF Truthy(frame[p].args.login_customer_id)
             THEN [heap EXCEPT ![frame[p].ads_client].login_customer_id =
                                 frame[p].args.login_customer_id]
             ELSE heap
  /\ Goto(p, "get_service")
  /\ UNCHANGED <<env, cred_file, _ADS_CLIENT, remote, frame, calls>>


\* Variant of get_service whose service sends the login customer id the
\* handle was constructed with, whatever was assigned to it since.
GetService_constructed_login(p) ==
  /\ pc[p] = "get_service"
  /\ frame' = [frame EXCEPT ![p].service_login =
                 heap[frame[p].ads_client].constructed_login]
  /\ Goto(p, "call")
  /\ UNCHANGED <<env, cred_file, _ADS_CLIENT, heap, remote, calls>>

\* ads_client.get_service(...): the service sends the login customer id the
\* handle holds when the service is created.
GetService(p) ==
  /\ pc[p] = "get_service"
  /\ frame' = [frame EXCEPT ![p].service_login =
                 heap[frame[p].ads_client].login_customer_id]
  /\ Goto(p, "call")
  /\ UNCHANGED <<env, cred_file, _ADS_CLIENT, heap, remote, calls>>

\* The handler has returned or raised; its frame, and a handle only it
\* referred to, are dropped.
ReturnToCaller(p) ==
  /\ pc[p] = "done"
  /\ pc' = [pc EXCEPT ![p] = "idle"]
  /\ frame' = [frame EXCEPT ![p] = IdleFrame]
  /\ calls' = [calls EXCEPT ![p] = <<>>]
  /\ result' = [result EXCEPT ![p] = NoResult]
  /\ heap' = [h \in DOMAIN heap \
                (({frame[p].ads_client} \ {_ADS_CLIENT}) \
                   {frame[q].ads_client : q \in Procs \ {p}}) |-> heap[h]]
  /\ UNCHANGED <<env, cred_file, _ADS_CLIENT, remote>>

\* The process environment and the credentials file change between
\* invocations (only get_ads_client reads them).
SetEnv(v, value) ==
  /\ \A p \in Procs : pc[p] = "idle"
  /\ env[v] # value
  /\ env' = [env EXCEPT ![v] = value]
  /\ UNCHANGED <<cred_file, _ADS_CLIENT, heap, remote, pc, frame, calls, result>>

SetFile(kind) ==
  /\ \A p \in Procs : pc[p] = "idle"
  /\ cred_file # kind
  /\ cred_file' = kind
  /\ UNCHANGED <<env, _ADS_CLIENT, heap, remote, pc, frame, calls, result>>

(***************************************************************************)
(* The handlers' remote calls.                                             *)
(***************************************************************************)
\* resource_name.split("/")[-1]
LastSegment(resource_name) == resource_name[Len(resource_name)]

\* The resource names list_accessible_customers answers with.
AccessibleCustomers ==
  {<<>>, <<<<"customers", "1">>>>, <<<<"customers", "1">>, <<"customers", "2">>>>}

\* list_accessible_accounts, api.py 144-149: no except clause, a fault
\* propagates as the library's exception.
list_accessible_accounts(p) ==
  /\ pc[p] = "call"
  /\ frame[p].tool = "list_accessible_accounts"
  /\ \/ \E accounts \in AccessibleCustomers :
          /\ Issue(p, "list_accessible_customers", <<>>, <<>>, accounts)
          /\ Finish(p, Return([i \in 1..Len(accounts) |->
                                 LastSegment(accounts[i])]))
     \/ \E errors \in Faults :
          /\ Issue(p, "list_accessible_customers", <<>>, errors, <<>>)
          /\ Finish(p, Raise("GoogleAdsException", errors))
  /\ UNCHANGED <<env, cred_file, _ADS_CLIENT, heap, remote, frame>>

(***************************************************************************)
(* The values of a response.  A value carries its type: a repeated         *)
(* container with its items, a message with its fields in declaration      *)
(* order, an enum member with its name and number, or a scalar (a str, an  *)
(* int64).  What the handlers return is made of scalars, lists and dicts;  *)
(* "decimal_str" is the str of the decimal digits of an int.               *)
(***************************************************************************)
Int64Value(n) == [type |-> "int64", value |-> n]
StrValue(text) == [type |-> "str", value |-> text]
EnumValue(name, number) == [type |-> "enum", name |-> name, number |-> number]
MessageValue(fields) == [type |-> "message", fields |-> fields]
RepeatedValue(items) == [type |-> "repeated", items |-> items]
Field(name, value) == [name |-> name, value |-> value]

\* The JSON name of a field: lowerCamelCase.
JsonName(name) ==
  CASE name = "resource_name" -> "resourceName"
    [] name = "ad_group"      -> "adGroup"
    [] name = "final_urls"    -> "finalUrls"
    [] OTHER                  -> name

\* json.loads(proto.Message.to_json(value, use_integers_for_enums=False)):
\* the message as a dict keyed by JSON names, an enum field as its name, an
\* int64 field as the str of its digits, a repeated field as a list.
RECURSIVE MessageToJson(_)
MessageToJson(value) ==
  CASE value.type = "message" ->
         [type |-> "dict",
          fields |-> [i \in 1..Len(value.fields) |->
                        Field(JsonName(value.fields[i].name),
                              MessageToJson(value.fields[i].value))]]
    [] value.type = "repeated" ->
         [type |-> "list",
          items |-> [i \in 1..Len(value.items) |->
                       MessageToJson(value.items[i])]]
    [] value.type = "enum" -> StrValue(value.name)
    [] value.type = "int64" -> [type |-> "decimal_str", value |-> value.value]
    [] OTHER -> value

\* Variant that leaves the elements of a repeated container as they are.
RECURSIVE format_value_shallow(_)
format_value_shallow(value) ==
  CASE value.type = "repeated" -> [type |-> "list", items |-> value.items]
    [] value.type = "message" -> MessageToJson(value)
    [] value.type = "enum" -> StrValue(value.name)
    [] OTHER -> value

\* format_value, api.py 161-177
RECURSIVE format_value(_)
format_value(value) ==
  CASE value.type = "repeated" ->
         [type |-> "list",
          items |-> [i \in 1..Len(value.items) |->
                       format_value(value.items[i])]]
    [] value.type = "message" -> MessageToJson(value)
    [] value.type = "enum" -> StrValue(value.name)
    [] OTHER -> value

\* The values of the fields of a row.
AdGroupMessage ==
  MessageValue(<<Field("resource_name", StrValue("customers/1/adGroups/20")),
                 Field("status", EnumValue("ENABLED", 2)),
                 Field("id", Int64Value(20))>>)
AdMessage ==
  MessageValue(<<Field("ad_group", AdGroupMessage),
                 Field("final_urls",
                       RepeatedValue(<<StrValue("https://example.com")>>))>>)
FieldValues ==
  {Int64Value(10), StrValue("Sale"), EnumValue("PAUSED", 3),
   AdGroupMessage, AdMessage,
   RepeatedValue(<<>>),
   RepeatedValue(<<StrValue("a"), StrValue("b")>>),
   RepeatedValue(<<AdGroupMessage, AdMessage>>)}

\* The streams search_stream answers with: no batch; one batch of one row
\* with one selected field; two batches with different field masks, the
\* rows having more attributes than the mask selects.
Batch(paths, rows) == [field_mask |-> paths, results |-> rows]
Streams ==
  {<<>>}
  \cup {<<Batch(<<"campaign.id">>, <<>>)>>}
  \cup {<<Batch(<<"ad_group_ad.ad">>, <<[ad_group_ad_ad |-> v]>>)>> :
          v \in FieldValues}
  \cup {<<Batch(<<"campaign.id", "campaign.status">>,
                <<[campaign_id |-> Int64Value(10),
                   campaign_status |-> EnumValue("PAUSED", 3),
                   campaign_name |-> StrValue("Sale")],
                  [campaign_id |-> Int64Value(11),
                   campaign_status |-> EnumValue("ENABLED", 2),
                   campaign_name |-> StrValue("Shoes")]>>),
           Batch(<<"campaign.name">>,
                <<[campaign_id |-> Int64Value(12),
                   campaign_status |-> EnumValue("ENABLED", 2),
                   campaign_name |-> StrValue("Boots")]>>)>>}

\* get_nested_attr(row, path)
get_nested_attr(row, path) ==
  CASE path = "campaign.id"     -> row.campaign_id
    [] path = "campaign.status" -> row.campaign_status
    [] path = "campaign.name"   -> row.campaign_name
    [] path = "ad_group_ad.ad"  -> row.ad_group_ad_ad

\* The dict a row becomes, api.py 219-224 (and 308-313).
format_row(row, paths) ==
  [path \in {paths[i] : i \in 1..Len(paths)} |->
     format_value(get_nested_attr(row, path))]

\* The loop over the stream, api.py 216-224 (and 305-313): output.
RECURSIVE stream_output(_)
stream_output(query_res) ==
  IF Len(query_res) = 0 THEN <<>>
  ELSE LET batch == Head(query_res)
       IN  [i \in 1..Len(batch.results) |->
              format_row(batch.results[i], batch.field_mask)]
           \o stream_output(Tail(query_res))

\* execute_gaql, api.py 207 and 214-228
execute_gaql(p) ==
  /\ pc[p] = "call"
  /\ frame[p].tool = "execute_gaql"
  /\ LET query == preprocess_gaql(frame[p].args.query)
         request == [query |-> query,
                     customer_id |-> frame[p].args.customer_id]
     IN  \/ \E query_res \in Streams :
              /\ Issue(p, "search_stream", request, <<>>, query_res)
              /\ Finish(p, Return([data |-> stream_output(query_res)]))
         \/ Faulted(p, "search_stream", request)
  /\ UNCHANGED <<env, cred_file, _ADS_CLIENT, heap, remote, frame>>

\* Variant of search_ads that returns the values as the stream has them.
search_ads_unformatted(p) ==
  /\ pc[p] = "call"
  /\ frame[p].tool = "search_ads"
  /\ LET query == preprocess_gaql(search_ads_query(frame[p].args))
         request == [query |-> query,
                     customer_id |-> frame[p].args.customer_id]
         raw_rows(batch) ==
           [i \in 1..Len(batch.results) |->
              [path \in {batch.field_mask[k] :
                           k \in 1..Len(batch.field_mask)} |->
                 get_nested_attr(batch.results[i], path)]]
     IN  \/ \E query_res \in Streams :
              /\ Issue(p, "search_stream", request, <<>>, query_res)
              /\ Finish(p, Return(
                    [data |-> IF Len(query_res) = 0 THEN <<>>
                              ELSE IF Len(query_res) = 1
                              THEN raw_rows(query_res[1])
                              ELSE raw_rows(query_res[1])
                                     \o raw_rows(query_res[2]),
                     query |-> query]))
         \/ Faulted(p, "search_stream", request)
  /\ UNCHANGED <<env, cred_file, _ADS_CLIENT, heap, remote, frame>>

\* search_ads, api.py 281-293 and 301-317
search_ads(p) ==
  /\ pc[p] = "call"
  /\ frame[p].tool = "search_ads"
  /\ LET query == preprocess_gaql(search_ads_query(frame[p].args))
         request == [query |-> query,
                     customer_id |-> frame[p].args.customer_id]
     IN  \/ \E query_res \in Streams :
              /\ Issue(p, "search_stream", request, <<>>, query_res)
              /\ Finish(p, Return([data |-> stream_output(query_res),
                                   query |-> query]))
         \/ Faulted(p, "search_stream", request)
  /\ UNCHANGED <<env, cred_file, _ADS_CLIENT, heap, remote, frame>>

\* Ids the remote service gives the objects it creates.
RemoteIds == {"501", "502"}

Operations(ops) == [kind |-> "ok", operations |-> ops]

\* The part of a handler's try block that builds its operations (types names
\* the get_type objects created, built is the operations or the ToolError
\* raised while building them) and sends them with one mutate call, which
\* returns response, the resource names of its results (the handler then
\* returns value), or faults.
MutateSegment(p, types, built, method, response, value) ==
  /\ frame' = [frame EXCEPT ![p].built = @ \o types]
  /\ IF built.kind = "raise"
     THEN Finish(p, built) /\ UNCHANGED calls
     ELSE LET request == [customer_id |-> frame[p].args.customer_id,
                          operations |-> built.operations]
          IN  \/ /\ Issue(p, method, request, <<>>, response)
                 /\ Finish(p, Return(value))
              \/ Faulted(p, method, request)

\* update_campaign_status, campaigns.py 138-148: the operation, or ToolError.
update_campaign_status_operation(args) ==
  LET status == _enum_value("CampaignStatusEnum", args.status, "status")
  IN  IF status.kind = "raise" THEN status
      ELSE Operations(<<[kind |-> "update",
                         resource_name |-> ResourcePath(args.customer_id,
                                             "campaigns", args.campaign_id),
                         status |-> status.value,
                         update_mask |-> <<"status">>]>>)

\* update_campaign_status, campaigns.py 137-161
update_campaign_status(p) ==
  /\ pc[p] = "call"
  /\ frame[p].tool = "update_campaign_status"
  /\ LET args == frame[p].args
     IN  MutateSegment(p, <<"CampaignOperation">>,
           update_campaign_status_operation(args), "mutate_campaigns",
           <<ResourcePath(args.customer_id, "campaigns", args.campaign_id)>>,
           [campaign_resource_name |->
              ResourcePath(args.customer_id, "campaigns", args.campaign_id),
            status |-> args.status])
  /\ UNCHANGED <<env, cred_file, _ADS_CLIENT, heap, remote>>


\* Variant of create_ad_group that insists on one of status, name and
\* cpc_bid_micros, as update_ad_group does.
create_ad_group_operation_at_least_one(args) ==
  LET status == _enum_value("AdGroupStatusEnum",
                            Default(args.status, "ENABLED"), "status")
  IN  IF args.status = None /\ args.name = None /\ args.cpc_bid_micros = NoInt
      THEN Raise("ToolError",
             <<"At least one of status, name, or cpc_bid_micros is required">>)
      ELSE IF status.kind = "raise" THEN status
      ELSE Operations(<<[kind |-> "create",
                         name |-> args.name,
                         campaign |-> ResourcePath(args.customer_id,
                                        "campaigns", args.campaign_id),
                         status |-> status.value,
                         type_ |-> "SEARCH_STANDARD",
                         cpc_bid_micros |-> args.cpc_bid_micros]>>)

\* create_ad_group, ad_groups.py 65-78: the operation, or ToolError.
create_ad_group_operation(args) ==
  LET status == _enum_value("AdGroupStatusEnum",
                            Default(args.status, "ENABLED"), "status")
  IN  IF status.kind = "raise" THEN status
      ELSE Operations(<<[kind |-> "create",
                         name |-> args.name,
                         campaign |-> ResourcePath(args.customer_id,
                                        "campaigns", args.campaign_id),
                         status |-> status.value,
                         type_ |-> "SEARCH_STANDARD",
                         cpc_bid_micros |-> args.cpc_bid_micros]>>)

\* create_ad_group, ad_groups.py 64-92
create_ad_group(p) ==
  /\ pc[p] = "call"
  /\ frame[p].tool = "create_ad_group"
  /\ \E id \in RemoteIds :
       LET args == frame[p].args
           resource_name == ResourcePath(args.customer_id, "adGroups", id)
       IN  MutateSegment(p, <<"AdGroupOperation">>,
             create_ad_group_operation(args), "mutate_ad_groups",
             <<resource_name>>,
             [ad_group_resource_name |-> resource_name,
              ad_group_id |-> LastSegment(resource_name)])
  /\ UNCHANGED <<env, cred_file, _ADS_CLIENT, heap, remote>>


\* Variant of the mask construction that tests truthiness ("if name:")
\* instead of "is not None": an empty name or a zero bid is left out.
update_ad_group_mask_truthy(args) ==
  (IF args.status # None THEN <<"status">> ELSE <<>>)
  \o (IF Truthy(args.name) THEN <<"name">> ELSE <<>>)
  \o (IF args.cpc_bid_micros # NoInt /\ args.cpc_bid_micros # <<0>>
      THEN <<"cpc_bid_micros">> ELSE <<>>)

\* update_ad_group, ad_groups.py 135-147: the update mask, appended to in
\* the order of the three if statements.
update_ad_group_mask(args) ==
  (IF args.status # None THEN <<"status">> ELSE <<>>)
  \o (IF args.name # None THEN <<"name">> ELSE <<>>)
  \o (IF args.cpc_bid_micros # NoInt THEN <<"cpc_bid_micros">> ELSE <<>>)

\* update_ad_group, ad_groups.py 129-147: the operation, or ToolError.
update_ad_group_operation(args) ==
  LET status == IF args.status # None
                THEN _enum_value("AdGroupStatusEnum", args.status, "status")
                ELSE Return(None)
  IN  IF status.kind = "raise" THEN status
      ELSE Operations(<<[kind |-> "update",
                         resource_name |-> ResourcePath(args.customer_id,
                                             "adGroups", args.ad_group_id),
                         status |-> status.value,
                         name |-> args.name,
                         cpc_bid_micros |-> args.cpc_bid_micros,
                         update_mask |-> update_ad_group_mask(args)]>>)

\* update_ad_group, ad_groups.py 128-160
update_ad_group(p) ==
  /\ pc[p] = "call"
  /\ frame[p].tool = "update_ad_group"
  /\ LET args == frame[p].args
     IN  MutateSegment(p, <<"AdGroupOperation">>,
           update_ad_group_operation(args), "mutate_ad_groups",
           <<ResourcePath(args.customer_id, "adGroups", args.ad_group_id)>>,
           [ad_group_resource_name |->
              ResourcePath(args.customer_id, "adGroups", args.ad_group_id),
            ad_group_id |-> args.ad_group_id])
  /\ UNCHANGED <<env, cred_file, _ADS_CLIENT, heap, remote>>

\* add_keywords, keywords.py 70-84: one operation per keyword, in order; the
\* match type is looked up for each keyword, so an invalid name raises at
\* the first one.
add_keywords_operations(args) ==
  LET match_type == _enum_value("KeywordMatchTypeEnum",
                                Default(args.match_type, "BROAD"), "match_type")
  IN  IF Len(args.keywords) > 0 /\ match_type.kind = "raise" THEN match_type
      ELSE Operations([i \in 1..Len(args.keywords) |->
             [kind |-> "create",
              ad_group |-> ResourcePath(args.customer_id, "adGroups",
                                        args.ad_group_id),
              status |-> "ENABLED",
              text |-> args.keywords[i],
              match_type |-> match_type.value]])

\* The get_type objects a loop over n keywords has created when it ends or
\* raises (at its first iteration).
LoopTypes(type, n, built) ==
  IF built.kind = "raise" THEN <<type>> ELSE [i \in 1..n |-> type]

\* add_keywords, keywords.py 69-98
add_keywords(p) ==
  /\ pc[p] = "call"
  /\ frame[p].tool = "add_keywords"
  /\ \E id \in RemoteIds :
       LET args == frame[p].args
           built == add_keywords_operations(args)
           response == [i \in 1..Len(args.keywords) |->
                          ResourcePath(args.customer_id, "adGroupCriteria", id)]
       IN  MutateSegment(p,
             LoopTypes("AdGroupCriterionOperation", Len(args.keywords), built),
             built, "mutate_ad_group_criteria", response,
             [keyword_resource_names |-> response])
  /\ UNCHANGED <<env, cred_file, _ADS_CLIENT, heap, remote>>

\* update_keyword_status, keywords.py 130-144: the operation, or ToolError.
update_keyword_status_operation(args) ==
  LET status == _enum_value("AdGroupCriterionStatusEnum", args.status, "status")
  IN  IF status.kind = "raise" THEN status
      ELSE Operations(<<[kind |-> "update",
                         resource_name |-> <<"customers", args.customer_id,
                                             "adGroupCriteria", args.ad_group_id,
                                             "~", args.criterion_id>>,
                         status |-> status.value,
                         update_mask |-> <<"status">>]>>)

\* update_keyword_status, keywords.py 129-157
update_keyword_status(p) ==
  /\ pc[p] = "call"
  /\ frame[p].tool = "update_keyword_status"
  /\ LET args == frame[p].args
     IN  MutateSegment(p, <<"AdGroupCriterionOperation">>,
           update_keyword_status_operation(args), "mutate_ad_group_criteria",
           <<<<"customers", args.customer_id, "adGroupCriteria",
               args.ad_group_id, "~", args.criterion_id>>>>,
           [criterion_resource_name |->
              <<"customers", args.customer_id, "adGroupCriteria",
                args.ad_group_id, "~", args.criterion_id>>,
            status |-> args.status])
  /\ UNCHANGED <<env, cred_file, _ADS_CLIENT, heap, remote>>

\* add_negative_keywords, keywords.py 192-202
add_negative_keywords_operations(args) ==
  Operations([i \in 1..Len(args.keywords) |->
    [kind |-> "create",
     campaign |-> ResourcePath(args.customer_id, "campaigns", args.campaign_id),
     negative |-> TRUE,
     text |-> args.keywords[i],
     match_type |-> "BROAD"]])

\* add_negative_keywords, keywords.py 191-216
add_negative_keywords(p) ==
  /\ pc[p] = "call"
  /\ frame[p].tool = "add_negative_keywords"
  /\ \E id \in RemoteIds :
       LET args == frame[p].args
           built == add_negative_keywords_operations(args)
           response == [i \in 1..Len(args.keywords) |->
                          ResourcePath(args.customer_id, "campaignCriteria", id)]
       IN  MutateSegment(p,
             LoopTypes("CampaignCriterionOperation", Len(args.keywords), built),
             built, "mutate_campaign_criteria", response,
             [negative_keyword_resource_names |-> response])
  /\ UNCHANGED <<env, cred_file, _ADS_CLIENT, heap, remote>>

\* budget_amount_micros or 1_000_000
DefaultBudgetAmountMicros == 1000000
BudgetAmount(budget_amount_micros) ==
  IF budget_amount_micros = NoInt \/ budget_amount_micros = <<0>>
  THEN DefaultBudgetAmountMicros
  ELSE budget_amount_micros[1]

\* create_campaign, campaigns.py 67-72: the budget operation.
create_campaign_budget_operation(args) ==
  Operations(<<[kind |-> "create",
                name |-> <<args.name, " Budget">>,
                delivery_method |-> "STANDARD",
                amount_micros |-> BudgetAmount(args.budget_amount_micros),
                explicitly_shared |-> FALSE]>>)

\* Variant of the budget step that swallows a fault of the budget call and
\* goes on to the campaign step with no budget.
create_campaign_budget_swallows_fault(p) ==
  /\ pc[p] = "call"
  /\ frame[p].tool = "create_campaign"
  /\ LET request ==
           [customer_id |-> frame[p].args.customer_id,
            operations |->
              create_campaign_budget_operation(frame[p].args).operations]
     IN  \/ \E id \in RemoteIds :
              LET budget_resource_name ==
                    ResourcePath(frame[p].args.customer_id,
                                 "campaignBudgets", id)
              IN  /\ Issue(p, "mutate_campaign_budgets", request, <<>>,
                           <<budget_resource_name>>)
                  /\ remote' = [remote EXCEPT !.budgets = @ + 1]
                  /\ frame' = [frame EXCEPT
                         ![p].built = @ \o <<"CampaignBudgetOperation">>,
                         ![p].local = budget_resource_name]
                  /\ Goto(p, "campaign")
         \/ \E errors \in Faults :
              /\ Issue(p, "mutate_campaign_budgets", request, errors, <<>>)
              /\ frame' = [frame EXCEPT
                     ![p].built = @ \o <<"CampaignBudgetOperation">>]
              /\ UNCHANGED remote
              /\ Goto(p, "campaign")
  /\ UNCHANGED <<env, cred_file, _ADS_CLIENT, heap>>

\* create_campaign, campaigns.py 66-78 and 107-110: the budget is created on
\* the remote service, or the call faults.
create_campaign_budget(p) ==
  /\ pc[p] = "call"
  /\ frame[p].tool = "create_campaign"
  /\ LET request ==
           [customer_id |-> frame[p].args.customer_id,
            operations |->
              create_campaign_budget_operation(frame[p].args).operations]
     IN  \/ \E id \in RemoteIds :
              LET budget_resource_name ==
                    ResourcePath(frame[p].args.customer_id,
                                 "campaignBudgets", id)
              IN  /\ Issue(p, "mutate_campaign_budgets", request, <<>>,
                           <<budget_resource_name>>)
                  /\ remote' = [remote EXCEPT !.budgets = @ + 1]
                  /\ frame' = [frame EXCEPT
                         ![p].built = @ \o <<"CampaignBudgetOperation">>,
                         ![p].local = budget_resource_name]
                  /\ Goto(p, "campaign")
         \/ /\ Faulted(p, "mutate_campaign_budgets", request)
            /\ frame' = [frame EXCEPT
                   ![p].built = @ \o <<"CampaignBudgetOperation">>]
            /\ UNCHANGED remote
  /\ UNCHANGED <<env, cred_file, _ADS_CLIENT, heap>>

\* create_campaign, campaigns.py 80-93: the campaign operation, or ToolError.
\* Variant of the campaign operation that references a budget name of its
\* own making instead of the one the budget call returned.
create_campaign_operation_first_budget(args, budget_resource_name) ==
  LET status == _enum_value("CampaignStatusEnum",
                            Default(args.status, "PAUSED"), "status")
      channel == _enum_value("AdvertisingChannelTypeEnum",
                             args.advertising_channel_type,
                             "advertising_channel_type")
  IN  IF status.kind = "raise" THEN status
      ELSE IF channel.kind = "raise" THEN channel
      ELSE Operations(<<[kind |-> "create",
                         name |-> args.name,
                         status |-> status.value,
                         advertising_channel_type |-> channel.value,
                         campaign_budget |->
                           ResourcePath(args.customer_id, "campaignBudgets",
                                        "501")]>>)

create_campaign_operation(args, budget_resource_name) ==
  LET status == _enum_value("CampaignStatusEnum",
                            Default(args.status, "PAUSED"), "status")
      channel == _enum_value("AdvertisingChannelTypeEnum",
                             args.advertising_channel_type,
                             "advertising_channel_type")
  IN  IF status.kind = "raise" THEN status
      ELSE IF channel.kind = "raise" THEN channel
      ELSE Operations(<<[kind |-> "create",
                         name |-> args.name,
                         status |-> status.value,
                         advertising_channel_type |-> channel.value,
                         campaign_budget |-> budget_resource_name]>>)

\* Variant of the campaign step that removes the budget again when the
\* campaign operation cannot be built.
create_campaign_campaign_compensating(p) ==
  /\ pc[p] = "campaign"
  /\ frame[p].tool = "create_campaign"
  /\ frame' = [frame EXCEPT ![p].built = @ \o <<"CampaignOperation">>]
  /\ \E id \in RemoteIds :
       LET args == frame[p].args
           budget_resource_name == frame[p].local
           campaign_resource_name ==
             ResourcePath(args.customer_id, "campaigns", id)
           built == create_campaign_operation(args, budget_resource_name)
       IN  IF built.kind = "raise"
           THEN /\ Issue(p, "mutate_campaign_budgets",
                         [customer_id |-> args.customer_id,
                          operations |->
                            <<[kind |-> "remove",
                               resource_name |-> budget_resource_name]>>],
                         <<>>, <<budget_resource_name>>)
                /\ Finish(p, built)
                /\ remote' = [remote EXCEPT !.budgets = @ - 1]
           ELSE LET request == [customer_id |-> args.customer_id,
                                operations |-> built.operations]
                IN  /\ UNCHANGED remote
                    /\ \/ /\ Issue(p, "mutate_campaigns", request, <<>>,
                                    <<campaign_resource_name>>)
                          /\ Finish(p, Return(
                               [campaign_resource_name |->
                                  campaign_resource_name,
                                campaign_id |->
                                  LastSegment(campaign_resource_name),
                                budget_resource_name |-> budget_resource_name,
                                budget_id |->
                                  LastSegment(budget_resource_name)]))
                       \/ Faulted(p, "mutate_campaigns", request)
  /\ UNCHANGED <<env, cred_file, _ADS_CLIENT, heap>>

\* create_campaign, campaigns.py 80-110
create_campaign_campaign(p) ==
  /\ pc[p] = "campaign"
  /\ frame[p].tool = "create_campaign"
  /\ \E id \in RemoteIds :
       LET args == frame[p].args
           budget_resource_name == frame[p].local
           campaign_resource_name ==
             ResourcePath(args.customer_id, "campaigns", id)
       IN  MutateSegment(p, <<"CampaignOperation">>,
             create_campaign_operation(args, budget_resource_name),
             "mutate_campaigns", <<campaign_resource_name>>,
             [campaign_resource_name |-> campaign_resource_name,
              campaign_id |-> LastSegment(campaign_resource_name),
              budget_resource_name |-> budget_resource_name,
              budget_id |-> LastSegment(budget_resource_name)])
  /\ UNCHANGED <<env, cred_file, _ADS_CLIENT, heap, remote>>

\* The rows a lookup query returns, each carrying the id or resource name
\* looked up: none, the one row LIMIT 1 allows, or (the handler does not
\* rely on the limit) a second row after it.
LookupRows(found, other) == {<<>>, <<found>>, <<found, other>>}

\* ad_group_ad_service.ad_group_ad_path(customer_id, ad_group_id, ad_id)
ad_group_ad_path(customer_id, ad_group_id, ad_id) ==
  <<"customers", customer_id, "adGroupAds">> \o ad_group_id \o <<"~", ad_id>>

\* Variant of the ad operation that creates the ad enabled.
create_responsive_search_ad_operation_enabled(args) ==
  Operations(<<[kind |-> "create",
                ad_group |-> ResourcePath(args.customer_id, "adGroups",
                                          args.ad_group_id),
                status |-> "ENABLED",
                headlines |-> [i \in 1..Len(args.headlines) |->
                                 [text |-> args.headlines[i]]],
                descriptions |-> [i \in 1..Len(args.descriptions) |->
                                    [text |-> args.descriptions[i]]],
                final_urls |-> args.final_urls]>>)

\* create_responsive_search_ad, ads.py 71-92: the operation.
create_responsive_search_ad_operation(args) ==
  Operations(<<[kind |-> "create",
                ad_group |-> ResourcePath(args.customer_id, "adGroups",
                                          args.ad_group_id),
                status |-> "PAUSED",
                headlines |-> [i \in 1..Len(args.headlines) |->
                                 [text |-> args.headlines[i]]],
                descriptions |-> [i \in 1..Len(args.descriptions) |->
                                    [text |-> args.descriptions[i]]],
                final_urls |-> args.final_urls]>>)

\* create_responsive_search_ad, ads.py 70-106.  The ad id is what follows
\* the last "~" of the returned resource name.
create_responsive_search_ad(p) ==
  /\ pc[p] = "call"
  /\ frame[p].tool = "create_responsive_search_ad"
  /\ \E id \in RemoteIds :
       LET args == frame[p].args
           resource_name ==
             ad_group_ad_path(args.customer_id, <<args.ad_group_id>>, id)
       IN  MutateSegment(p,
             <<"AdGroupAdOperation">> \o
               [i \in 1..(Len(args.headlines) + Len(args.descriptions)) |->
                  "AdTextAsset"],
             create_responsive_search_ad_operation(args),
             "mutate_ad_group_ads", <<resource_name>>,
             [ad_group_ad_resource_name |-> resource_name,
              ad_id |-> LastSegment(resource_name)])
  /\ UNCHANGED <<env, cred_file, _ADS_CLIENT, heap, remote>>

\* update_ad_status, ads.py 134-147 and 171-174: the lookup query.
update_ad_status_lookup(p) ==
  /\ pc[p] = "call"
  /\ frame[p].tool = "update_ad_status"
  /\ LET request ==
           [customer_id |-> frame[p].args.customer_id,
            query |-> <<"SELECT ad_group.id ", "FROM ad_group_ad ",
                        "WHERE ad_group_ad.ad.id = ", frame[p].args.ad_id,
                        " ", "LIMIT 1">>]
     IN  \/ \E rows \in LookupRows(20, 21) :
              /\ Issue(p, "search", request, <<>>, rows)
              /\ IF Len(rows) = 0
                 THEN /\ Finish(p, Raise("ToolError",
                             <<"Ad not found: ", frame[p].args.ad_id>>))
                      /\ UNCHANGED frame
                 ELSE /\ frame' = [frame EXCEPT
                             ![p].local = IntToStr(rows[1])]
                      /\ Goto(p, "mutate")
         \/ Faulted(p, "search", request) /\ UNCHANGED frame
  /\ UNCHANGED <<env, cred_file, _ADS_CLIENT, heap, remote>>

\* update_ad_status, ads.py 149-161: the operation, or ToolError.
update_ad_status_operation(args, ad_group_id) ==
  LET status == _enum_value("AdGroupAdStatusEnum", args.status, "status")
  IN  IF status.kind = "raise" THEN status
      ELSE Operations(<<[kind |-> "update",
                         resource_name |-> ad_group_ad_path(
                                             args.customer_id, ad_group_id,
                                             args.ad_id),
                         status |-> status.value,
                         update_mask |-> <<"status">>]>>)

\* update_ad_status, ads.py 149-174
update_ad_status_mutate(p) ==
  /\ pc[p] = "mutate"
  /\ frame[p].tool = "update_ad_status"
  /\ LET args == frame[p].args
         built == update_ad_status_operation(args, frame[p].local)
     IN  MutateSegment(p, <<"AdGroupAdOperation">>, built,
           "mutate_ad_group_ads",
           <<ad_group_ad_path(args.customer_id, frame[p].local, args.ad_id)>>,
           [ad_group_ad_resource_name |->
              ad_group_ad_path(args.customer_id, frame[p].local, args.ad_id),
            status |-> args.status])
  /\ UNCHANGED <<env, cred_file, _ADS_CLIENT, heap, remote>>

\* Variant of the lookup that takes the budget from the last row.
update_campaign_budget_lookup_last_row(p) ==
  /\ pc[p] = "call"
  /\ frame[p].tool = "update_campaign_budget"
  /\ LET request ==
           [customer_id |-> frame[p].args.customer_id,
            query |-> <<"SELECT campaign.campaign_budget ", "FROM campaign ",
                        "WHERE campaign.id = ", frame[p].args.campaign_id,
                        " ", "LIMIT 1">>]
     IN  \/ \E rows \in LookupRows(
                  ResourcePath(frame[p].args.customer_id,
                               "campaignBudgets", "501"),
                  ResourcePath(frame[p].args.customer_id,
                               "campaignBudgets", "502")) :
              /\ Issue(p, "search", request, <<>>, rows)
              /\ IF Len(rows) = 0
                 THEN /\ Finish(p, Raise("ToolError",
                             <<"Campaign not found: ",
                               frame[p].args.campaign_id>>))
                      /\ UNCHANGED frame
                 ELSE /\ frame' = [frame EXCEPT
                             ![p].local = rows[Len(rows)]]
                      /\ Goto(p, "mutate")
         \/ Faulted(p, "search", request) /\ UNCHANGED frame
  /\ UNCHANGED <<env, cred_file, _ADS_CLIENT, heap, remote>>

\* update_campaign_budget, campaigns.py 191-202 and 220-223: the lookup query.
update_campaign_budget_lookup(p) ==
  /\ pc[p] = "call"
  /\ frame[p].tool = "update_campaign_budget"
  /\ LET request ==
           [customer_id |-> frame[p].args.customer_id,
            query |-> <<"SELECT campaign.campaign_budget ", "FROM campaign ",
                        "WHERE campaign.id = ", frame[p].args.campaign_id,
                        " ", "LIMIT 1">>]
     IN  \/ \E rows \in LookupRows(
                  ResourcePath(frame[p].args.customer_id,
                               "campaignBudgets", "501"),
                  ResourcePath(frame[p].args.customer_id,
                               "campaignBudgets", "502")) :
              /\ Issue(p, "search", request, <<>>, rows)
              /\ IF Len(rows) = 0
                 THEN /\ Finish(p, Raise("ToolError",
                             <<"Campaign not found: ",
                               frame[p].args.campaign_id>>))
                      /\ UNCHANGED frame
                 ELSE /\ frame' = [frame EXCEPT ![p].local = rows[1]]
                      /\ Goto(p, "mutate")
         \/ Faulted(p, "search", request) /\ UNCHANGED frame
  /\ UNCHANGED <<env, cred_file, _ADS_CLIENT, heap, remote>>

\* update_campaign_budget, campaigns.py 204-210: the budget operation.
update_campaign_budget_operation(args, budget_resource_name) ==
  Operations(<<[kind |-> "update",
                resource_name |-> budget_resource_name,
                amount_micros |-> args.budget_amount_micros[1],
                update_mask |-> <<"amount_micros">>]>>)

\* update_campaign_budget, campaigns.py 204-223
update_campaign_budget_mutate(p) ==
  /\ pc[p] = "mutate"
  /\ frame[p].tool = "update_campaign_budget"
  /\ LET args == frame[p].args
     IN  MutateSegment(p, <<"CampaignBudgetOperation">>,
           update_campaign_budget_operation(args, frame[p].local),
           "mutate_campaign_budgets", <<frame[p].local>>,
           [budget_resource_name |-> frame[p].local,
            amount_micros |-> args.budget_amount_micros[1]])
  /\ UNCHANGED <<env, cred_file, _ADS_CLIENT, heap, remote>>

\* upload_offline_conversion, conversions.py 62-75: the click conversion.
click_conversion(args) ==
  [conversion_action |-> ResourcePath(args.customer_id, "conversionActions",
                                      args.conversion_action_id),
   gclid |-> args.gclid,
   conversion_date_time |-> args.conversion_date_time,
   conversion_value |-> args.conversion_value,
   currency_code |-> args.currency_code]

\* The result the service returns for a conversion: its echo when it was
\* accepted, and an empty message when it was rejected.
ClickConversionResult(conversion, accepted) ==
  IF accepted
  THEN [conversion_action |-> conversion.conversion_action,
        conversion_date_time |-> conversion.conversion_date_time,
        gclid |-> conversion.gclid]
  ELSE [conversion_action |-> <<>>, conversion_date_time |-> "", gclid |-> ""]

\* upload_offline_conversion, conversions.py 61-94.  The request enables
\* partial failure: the service reports a conversion it rejects in the
\* response's partial_failure_error and raises only for a fault of the
\* request as a whole.
upload_offline_conversion(p) ==
  /\ pc[p] = "call"
  /\ frame[p].tool = "upload_offline_conversion"
  /\ frame' = [frame EXCEPT ![p].built =
                 @ \o <<"ClickConversion", "UploadClickConversionsRequest">>]
  /\ LET conversion == click_conversion(frame[p].args)
         request == [customer_id |-> frame[p].args.customer_id,
                     conversions |-> <<conversion>>,
                     partial_failure |-> TRUE]
     IN  \/ \E errors \in {<<>>} \cup Faults :
              LET response ==
                    [results |-> <<ClickConversionResult(conversion,
                                                         errors = <<>>)>>,
                     partial_failure_error |-> errors]
                  result_ == response.results[1]
              IN  /\ Issue(p, "upload_click_conversions", request, <<>>,
                           response)
                  /\ Finish(p, Return(
                        [conversion_action |-> result_.conversion_action,
                         conversion_date_time |-> result_.conversion_date_time,
                         gclid |-> result_.gclid]))
         \/ Faulted(p, "upload_click_conversions", request)
  /\ UNCHANGED <<env, cred_file, _ADS_CLIENT, heap, remote>>

(***************************************************************************)
(* generate_keyword_ideas                                                  *)
(***************************************************************************)
_VALID_MONTHS ==
  <<"JANUARY", "FEBRUARY", "MARCH", "APRIL", "MAY", "JUNE",
    "JULY", "AUGUST", "SEPTEMBER", "OCTOBER", "NOVEMBER", "DECEMBER">>

\* datetime.datetime.now(): the year and month of the clock.
CurrentDates == [year : {2026}, month : {1, 11, 12}]

\* str.upper() of the month names given.
Upper(name) == IF name = "march" THEN "MARCH" ELSE name

\* value in _VALID_MONTHS
IsValidMonth(name) == \E i \in 1..Len(_VALID_MONTHS) : _VALID_MONTHS[i] = name

\* Variant of the seed that tests page_url against None only.
keyword_ideas_seed_url_not_none(args) ==
  IF Len(args.keywords) > 0 /\ args.page_url # None
  THEN [keyword_and_url_seed |->
          [url |-> args.page_url, keywords |-> args.keywords]]
  ELSE IF Len(args.keywords) > 0
  THEN [keyword_seed |-> [keywords |-> args.keywords]]
  ELSE IF args.page_url # None
  THEN [url_seed |-> [url |-> args.page_url]]
  ELSE <<>>

\* generate_keyword_ideas, keyword_planner.py 96-102: the seed.
keyword_ideas_seed(args) ==
  IF Len(args.keywords) > 0 /\ Truthy(args.page_url)
  THEN [keyword_and_url_seed |->
          [url |-> args.page_url, keywords |-> args.keywords]]
  ELSE IF Len(args.keywords) > 0
  THEN [keyword_seed |-> [keywords |-> args.keywords]]
  ELSE IF Truthy(args.page_url)
  THEN [url_seed |-> [url |-> args.page_url]]
  ELSE <<>>

\* Variant of the date range whose defaults are the twelve months that end
\* at the current month.
historical_metrics_options_trailing(args, now) ==
  IF /\ args.start_year = NoInt /\ args.start_month = None
     /\ args.end_year = NoInt /\ args.end_month = None
  THEN Return(<<>>)
  ELSE LET s_year == IF args.start_year # NoInt THEN args.start_year[1]
                     ELSE IF now.month = 12 THEN now.year
                     ELSE now.year - 1
           s_month == Upper(IF Truthy(args.start_month) THEN args.start_month
                            ELSE _VALID_MONTHS[(now.month % 12) + 1])
           e_year == IF args.end_year # NoInt THEN args.end_year[1]
                     ELSE now.year
           e_month == Upper(IF Truthy(args.end_month) THEN args.end_month
                            ELSE _VALID_MONTHS[now.month])
       IN  IF ~IsValidMonth(s_month)
           THEN Raise("ToolError",
                      <<"Invalid start_month '", s_month,
                        "'. Must be one of: ">> \o Join(_VALID_MONTHS, ", "))
           ELSE IF ~IsValidMonth(e_month)
           THEN Raise("ToolError",
                      <<"Invalid end_month '", e_month,
                        "'. Must be one of: ">> \o Join(_VALID_MONTHS, ", "))
           ELSE Return(<<[start |-> [year |-> s_year, month |-> s_month],
                          end |-> [year |-> e_year, month |-> e_month]]>>)

\* generate_keyword_ideas, keyword_planner.py 104-121: the historical
\* metrics date range set on the request (none, or one), or ToolError.
historical_metrics_options(args, now) ==
  IF /\ args.start_year = NoInt /\ args.start_month = None
     /\ args.end_year = NoInt /\ args.end_month = None
  THEN Return(<<>>)
  ELSE LET s_year == IF args.start_year # NoInt THEN args.start_year[1]
                     ELSE now.year - 1
           s_month == Upper(IF Truthy(args.start_month) THEN args.start_month
                            ELSE "JANUARY")
           e_year == IF args.end_year # NoInt THEN args.end_year[1]
                     ELSE now.year
           e_month == Upper(IF Truthy(args.end_month) THEN args.end_month
                            ELSE _VALID_MONTHS[now.month])
       IN  IF ~IsValidMonth(s_month)
           THEN Raise("ToolError",
                      <<"Invalid start_month '", s_month,
                        "'. Must be one of: ">> \o Join(_VALID_MONTHS, ", "))
           ELSE IF ~IsValidMonth(e_month)
           THEN Raise("ToolError",
                      <<"Invalid end_month '", e_month,
                        "'. Must be one of: ">> \o Join(_VALID_MONTHS, ", "))
           ELSE Return(<<[start |-> [year |-> s_year, month |-> s_month],
                          end |-> [year |-> e_year, month |-> e_month]]>>)

\* The ideas the service answers with.
KeywordIdeaResponses ==
  {<<>>,
   <<[text |-> "running shoes",
      keyword_idea_metrics |->
        [avg_monthly_searches |-> 100,
         competition |-> [name |-> "LOW"],
         competition_index |-> 7,
         low_top_of_page_bid_micros |-> 10000,
         high_top_of_page_bid_micros |-> 20000]]>>}

\* generate_keyword_ideas, keyword_planner.py 80-147.  The clock read at
\* line 106 is kept in the frame.
generate_keyword_ideas(p) ==
  /\ pc[p] = "call"
  /\ frame[p].tool = "generate_keyword_ideas"
  /\ \E now \in CurrentDates :
       LET args == frame[p].args
           options == historical_metrics_options(args, now)
       IN  /\ frame' = [frame EXCEPT
                  ![p].built = @ \o <<"GenerateKeywordIdeasRequest">>,
                  ![p].local = now]
           /\ IF options.kind = "raise"
              THEN Finish(p, options) /\ UNCHANGED calls
              ELSE LET request ==
                         [customer_id |-> args.customer_id,
                          language |-> <<"languageConstants",
                                         args.language_id>>,
                          geo_target_constants |->
                            [i \in 1..Len(OrEmpty(args.geo_target_ids)) |->
                               <<"geoTargetConstants",
                                 OrEmpty(args.geo_target_ids)[i]>>],
                          keyword_plan_network |->
                            "GOOGLE_SEARCH_AND_PARTNERS",
                          seed |-> keyword_ideas_seed(args),
                          historical_metrics_options |-> options.value]
                   IN  \/ \E response \in KeywordIdeaResponses :
                            /\ Issue(p, "generate_keyword_ideas", request,
                                     <<>>, response)
                            /\ Finish(p, Return([ideas |->
                                  [i \in 1..Len(response) |->
                                     LET idea == response[i]
                                         metrics == idea.keyword_idea_metrics
                                     IN  [text |-> idea.text,
                                          avg_monthly_searches |->
                                            metrics.avg_monthly_searches,
                                          competition |->
                                            metrics.competition.name,
                                          competition_index |->
                                            metrics.competition_index,
                                          low_top_of_page_bid_micros |->
                                            metrics.low_top_of_page_bid_micros,
                                          high_top_of_page_bid_micros |->
                                            metrics.high_top_of_page_bid_micros]
                                  ]]))
                       \/ Faulted(p, "generate_keyword_ideas", request)
  /\ UNCHANGED <<env, cred_file, _ADS_CLIENT, heap, remote>>

\* The two handlers that run an offline user data job.
JobTools == {"add_customer_list_members", "remove_customer_list_members"}

\* add_customer_list_members, audiences.py 162-179 (remove_customer_list_
\* members, 247-264): the job is created.
create_offline_user_data_job(p) ==
  /\ pc[p] = "call"
  /\ frame[p].tool \in JobTools
  /\ LET args == frame[p].args
         request ==
           [customer_id |-> args.customer_id,
            job |-> [type_ |-> "CUSTOMER_MATCH_USER_LIST",
                     user_list |-> ResourcePath(args.customer_id, "userLists",
                                                args.user_list_id)]]
     IN  \/ \E id \in RemoteIds :
              LET resource_name ==
                    ResourcePath(args.customer_id, "offlineUserDataJobs", id)
              IN  /\ Issue(p, "create_offline_user_data_job", request, <<>>,
                           <<resource_name>>)
                  /\ frame' = [frame EXCEPT
                         ![p].built = @ \o <<"OfflineUserDataJob">>,
                         ![p].local = <<resource_name>>]
                  /\ Goto(p, "add_operations")
         \/ /\ Faulted(p, "create_offline_user_data_job", request)
            /\ frame' = [frame EXCEPT ![p].built = @ \o <<"OfflineUserDataJob">>]
  /\ UNCHANGED <<env, cred_file, _ADS_CLIENT, heap, remote>>

\* The operations the handler in slot p builds.
JobOperations(p) ==
  _build_offline_user_data_job_operations(
    OrEmpty(frame[p].args.emails), OrEmpty(frame[p].args.phone_numbers),
    frame[p].tool = "remove_customer_list_members")

\* The codes of add_response.partial_failure_error: 0 when every operation
\* was accepted.
PartialFailureCodes == {0, 3}

\* add_customer_list_members, audiences.py 180-194 (remove_customer_list_
\* members, 265-279): the operations are added to the created job.
add_offline_user_data_job_operations(p) ==
  /\ pc[p] = "add_operations"
  /\ frame[p].tool \in JobTools
  /\ LET request == [resource_name |-> frame[p].local[1],
                     enable_partial_failure |-> TRUE,
                     operations |-> JobOperations(p)]
         types == [i \in 1..Len(JobOperations(p)) |->
                     "OfflineUserDataJobOperation"]
                  \o <<"AddOfflineUserDataJobOperationsRequest">>
     IN  \/ \E code \in PartialFailureCodes :
              /\ Issue(p, "add_offline_user_data_job_operations", request,
                       <<>>, <<code>>)
              /\ frame' = [frame EXCEPT
                     ![p].built = @ \o types,
                     ![p].local = Append(@, code)]
              /\ Goto(p, "run")
         \/ /\ Faulted(p, "add_offline_user_data_job_operations", request)
            /\ frame' = [frame EXCEPT ![p].built = @ \o types]
  /\ UNCHANGED <<env, cred_file, _ADS_CLIENT, heap, remote>>

\* add_customer_list_members, audiences.py 196-207 (remove_customer_list_
\* members, 281-292): the job is started and the handler returns.
run_offline_user_data_job(p) ==
  /\ pc[p] = "run"
  /\ frame[p].tool \in JobTools
  /\ LET request == [resource_name |-> frame[p].local[1]]
     IN  \/ /\ Issue(p, "run_offline_user_data_job", request, <<>>, <<>>)
            /\ Finish(p, Return(
                  [offline_user_data_job_resource_name |-> frame[p].local[1],
                   operation_count |-> Len(JobOperations(p)),
                   partial_failure_code |-> frame[p].local[2]]))
         \/ Faulted(p, "run_offline_user_data_job", request)
  /\ UNCHANGED <<env, cred_file, _ADS_CLIENT, heap, remote, frame>>

InitFrames ==
  /\ _ADS_CLIENT = NoHandle
  /\ heap = <<>>
  /\ remote = [budgets |-> 0]
  /\ pc = [p \in Procs |-> "idle"]
  /\ frame = [p \in Procs |-> IdleFrame]
  /\ calls = [p \in Procs |-> <<>>]
  /\ result = [p \in Procs |-> NoResult]

(***************************************************************************)
(* SpecCred: credential resolution under a changing environment.           *)
(***************************************************************************)
InitCred ==
  /\ env = EnvWith(None, None)
  /\ cred_file = "absent"
  /\ InitFrames

NextCred ==
  \/ \E v \in RequiredEnv, value \in SecretValues : SetEnv(v, value)
  \/ \E value \in LoginEnvValues : SetEnv(LoginEnv, value)
  \/ \E kind \in FileKinds : SetFile(kind)
  \/ \E args \in ToolArgs("list_accessible_accounts"), tok \in AccessTokens :
       Invoke("t1", "list_accessible_accounts", args, tok)
  \/ Start("t1")
  \/ GetAdsClient("t1")
  \/ GetService("t1")
  \/ list_accessible_accounts("t1")
  \/ ReturnToCaller("t1")

SpecCred == InitCred /\ [][NextCred]_vars

(***************************************************************************)
(* Spec: the handlers, invoked one after the other.                        *)
(***************************************************************************)
Tools == {"execute_gaql", "search_ads", "update_campaign_status",
          "create_campaign", "update_campaign_budget", "create_ad_group",
          "update_ad_group", "add_keywords", "update_keyword_status",
          "add_negative_keywords", "update_ad_status",
          "upload_offline_conversion", "add_customer_list_members",
          "remove_customer_list_members", "list_accessible_accounts",
          "create_responsive_search_ad"}

Init ==
  /\ env \in {EnvWith("secret", "12-34"), EnvWith("secret", None),
              EnvWith(None, None)}
  /\ cred_file = "absent"
  /\ InitFrames

Next ==
  \/ \E tool \in Tools : \E args \in ToolArgs(tool), tok \in AccessTokens :
       Invoke("t1", tool, args, tok)
  \/ Start("t1")
  \/ GetAdsClient("t1")
  \/ SetLogin("t1")
  \/ GetService("t1")
  \/ list_accessible_accounts("t1")
  \/ execute_gaql("t1")
  \/ search_ads("t1")
  \/ update_campaign_status("t1")
  \/ create_campaign_budget("t1")
  \/ create_campaign_campaign("t1")
  \/ update_campaign_budget_lookup("t1")
  \/ update_campaign_budget_mutate("t1")
  \/ create_ad_group("t1")
  \/ update_ad_group("t1")
  \/ add_keywords("t1")
  \/ update_keyword_status("t1")
  \/ add_negative_keywords("t1")
  \/ create_responsive_search_ad("t1")
  \/ update_ad_status_lookup("t1")
  \/ update_ad_status_mutate("t1")
  \/ upload_offline_conversion("t1")
  \/ create_offline_user_data_job("t1")
  \/ add_offline_user_data_job_operations("t1")
  \/ run_offline_user_data_job("t1")
  \/ ReturnToCaller("t1")

Spec == Init /\ [][Next]_vars

(***************************************************************************)
(* SpecIdeas: generate_keyword_ideas, invoked again and again with every   *)
(* combination of seeds and date fields, at several dates of the clock.    *)
(***************************************************************************)
InitIdeas ==
  /\ env = EnvWith("secret", None)
  /\ cred_file = "absent"
  /\ InitFrames

NextIdeas ==
  \/ \E args \in ToolArgs("generate_keyword_ideas") :
       Invoke("t1", "generate_keyword_ideas", args, None)
  \/ Start("t1")
  \/ GetAdsClient("t1")
  \/ SetLogin("t1")
  \/ GetService("t1")
  \/ generate_keyword_ideas("t1")
  \/ ReturnToCaller("t1")

SpecIdeas == InitIdeas /\ [][NextIdeas]_vars

(***************************************************************************)
(* SpecQuery: the two query tools, invoked one after the other on raw      *)
(* queries and on the structured parameters queries are built from.        *)
(***************************************************************************)
InitQuery ==
  /\ env = EnvWith("secret", None)
  /\ cred_file = "absent"
  /\ InitFrames

NextQuery ==
  \/ \E query \in RawQueries :
       Invoke("t1", "execute_gaql",
              [query |-> query, customer_id |-> CustomerId,
               login_customer_id |-> None], None)
  \/ \E args \in SearchArgs : Invoke("t1", "search_ads", args, None)
  \/ Start("t1")
  \/ GetAdsClient("t1")
  \/ SetLogin("t1")
  \/ GetService("t1")
  \/ execute_gaql("t1")
  \/ search_ads("t1")
  \/ ReturnToCaller("t1")

SpecQuery == InitQuery /\ [][NextQuery]_vars

(***************************************************************************)
(* SpecRace: two invocations run at once on the shared cached handle, each *)
(* with its own login_customer_id.                                         *)
(***************************************************************************)
RaceTools == {"search_ads", "create_ad_group"}
RaceLogins == {"777", "888"}

RaceArgs(tool, login) ==
  IF tool = "search_ads"
  THEN [customer_id |-> CustomerId, resource |-> "campaign",
        fields |-> <<"campaign.id">>, conditions |-> NoList,
        orderings |-> NoList, limit |-> NoInt, login_customer_id |-> login]
  ELSE [customer_id |-> CustomerId, campaign_id |-> "10", name |-> "Shoes",
        cpc_bid_micros |-> NoInt, status |-> None, login_customer_id |-> login]

InitRace ==
  /\ env = EnvWith("secret", "12-34")
  /\ cred_file = "absent"
  /\ InitFrames

NextRace ==
  \E p \in Procs :
    \/ \E tool \in RaceTools, login \in RaceLogins :
         Invoke(p, tool, RaceArgs(tool, login), None)
    \/ Start(p)
    \/ GetAdsClient(p)
    \/ SetLogin(p)
    \/ GetService(p)
    \/ search_ads(p)
    \/ create_ad_group(p)

SpecRace == InitRace /\ [][NextRace]_vars

(***************************************************************************)
(* Properties.                                                             *)
(***************************************************************************)
OwnLogin(p) == frame[p].args.login_customer_id

\* Slot p takes its get_ads_client() step.
GetAdsClientStep(p) == pc[p] = "get_ads_client" /\ pc'[p] # "get_ads_client"

\* C1 (Spec): the per-call login override is scoped to its call: an
\* invocation that supplies no login_customer_id and runs on the shared
\* cached handle issues every remote call under the login customer id the
\* handle was constructed with (the environment's, or none), whatever
\* earlier invocations supplied.
C1_OverrideScopedToCall ==
  \A p \in Procs : \A i \in 1..Len(calls[p]) :
    (~Truthy(OwnLogin(p)) /\ frame[p].ads_client = _ADS_CLIENT)
      => calls[p][i].login_customer_id = heap[_ADS_CLIENT].constructed_login

\* C2 (SpecCred): with no handle cached, get_ads_client resolves in strict
\* priority order: a non-empty access token always yields a token-built
\* handle; else all four required variables set and non-empty yield the
\* environment-built handle; else an existing credentials file yields the
\* file-built handle; it raises only when none of the three resolves.
C2_PriorityOrder ==
  [][\A p \in Procs :
       (GetAdsClientStep(p) /\ _ADS_CLIENT = NoHandle) =>
         LET token == Truthy(frame[p].access_token)
             all_four == \A v \in RequiredEnv : Truthy(env[v])
             exists == cred_file # "absent"
             raised == result'[p].kind = "raise"
             source == heap'[frame'[p].ads_client].source
         IN  /\ token => ~raised /\ source = "token"
             /\ (~token /\ all_four) => ~raised /\ source = "env"
             /\ (~token /\ ~all_four /\ exists) => ~raised /\ source = "file"
             /\ raised => (~token /\ ~all_four /\ ~exists)]_vars

\* C3 (SpecCred): the cached handle is a process-lifetime singleton: once a
\* call without an access token has succeeded (the cache is set), the cache
\* never changes again, and every later call without an access token
\* returns that very handle and constructs no client, whatever the
\* environment and the credentials file have become.
C3_CachedSingleton ==
  [][_ADS_CLIENT # NoHandle =>
       /\ _ADS_CLIENT' = _ADS_CLIENT
       /\ \A p \in Procs :
            (GetAdsClientStep(p) /\ ~Truthy(frame[p].access_token)) =>
              /\ result'[p].kind # "raise"
              /\ frame'[p].ads_client = _ADS_CLIENT
              /\ heap' = heap]_vars

\* C3 witness: a call without an access token holds the cached handle while
\* the environment and the file it was built from are gone.
C3_Witness ==
  \E p \in Procs :
    /\ pc[p] = "get_service"
    /\ ~Truthy(frame[p].access_token)
    /\ frame[p].ads_client = _ADS_CLIENT
    /\ _ADS_CLIENT # NoHandle
    /\ heap[_ADS_CLIENT].source = "env"
    /\ \A v \in RequiredEnv : env[v] = None
    /\ cred_file = "absent"

\* The credential sources an error message enumerates: one per numbered item.
SourceNamed(item) ==
  CASE item = EnvironmentItem -> "environment variables"
    [] item = YamlFileItem    -> "credentials file"
    [] OTHER                  -> "access token"
SourcesEnumerated(message) ==
  {SourceNamed(message[i]) : i \in 2..Len(message)}

\* get_ads_client looks for credentials and finds none in slot p's step.
FindsNothing(p) ==
  /\ GetAdsClientStep(p)
  /\ _ADS_CLIENT = NoHandle
  /\ ~Truthy(frame[p].access_token)
  /\ \E v \in RequiredEnv : ~Truthy(env[v])
  /\ cred_file = "absent"

C4_LoginIsLastAssigned ==
  \A p \in Procs :
    pc[p] \in {"call", "done"} =>
      /\ \A i \in 1..Len(calls[p]) :
           calls[p][i].login_customer_id = frame[p].service_login
      /\ \/ frame[p].service_login = OwnLogin(p)
         \/ \E q \in Procs \ {p} :
              /\ pc[q] \in {"get_service", "call", "done"}
              /\ frame[q].ads_client = frame[p].ads_client
              /\ OwnLogin(q) = frame[p].service_login

\* C4 witness: the race: an invocation's remote call has been issued on the
\* shared cached handle under the other invocation's login customer id.
C4_Witness ==
  \E p \in Procs : \E q \in Procs \ {p} :
    /\ Len(calls[p]) = 1
    /\ frame[p].ads_client = _ADS_CLIENT
    /\ frame[q].ads_client = _ADS_CLIENT
    /\ OwnLogin(p) # OwnLogin(q)
    /\ calls[p][1].login_customer_id = OwnLogin(q)

\* The enum name an invocation passes is not a member of the enum type the
\* handler looks it up in (a parameter left out takes its default).
InvalidEnumArg(tool, args) ==
  LET invalid(enum_type, value) == value \notin EnumMembers(enum_type)
  IN  CASE tool = "update_campaign_status" ->
             invalid("CampaignStatusEnum", args.status)
        [] tool = "create_campaign" ->
             \/ invalid("CampaignStatusEnum", Default(args.status, "PAUSED"))
             \/ invalid("AdvertisingChannelTypeEnum",
                        args.advertising_channel_type)
        [] tool = "create_ad_group" ->
             invalid("AdGroupStatusEnum", Default(args.status, "ENABLED"))
        [] tool = "update_ad_group" ->
             args.status # None /\ invalid("AdGroupStatusEnum", args.status)
        [] tool = "add_keywords" ->
             invalid("KeywordMatchTypeEnum", Default(args.match_type, "BROAD"))
        [] tool = "update_keyword_status" ->
             invalid("AdGroupCriterionStatusEnum", args.status)
        [] tool = "update_ad_status" ->
             invalid("AdGroupAdStatusEnum", args.status)
        [] OTHER -> FALSE

\* C6 (Spec): in every handler an invalid enum name is rejected with the
\* local error "Invalid <field>: <value>" before any remote call of the
\* invocation is issued: such an invocation never has a remote call on
\* record, and once it has its client handle it ends with that error.
C6_InvalidEnumBeforeRemoteCall ==
  \A p \in Procs :
    (pc[p] # "idle" /\ InvalidEnumArg(frame[p].tool, frame[p].args)) =>
      /\ calls[p] = <<>>
      /\ (pc[p] = "done" /\ frame[p].ads_client # NoHandle) =>
           /\ result[p].kind = "raise"
           /\ result[p].type = "ToolError"
           /\ result[p].message[1] = "Invalid "

\* The fields among status, name, cpc_bid_micros the caller supplied (is not
\* None), in that order.
SuppliedFields(args) ==
  LET supplied(f) == IF f = "cpc_bid_micros"
                     THEN args.cpc_bid_micros # NoInt
                     ELSE args[f] # None
  IN  SelectSeq(<<"status", "name", "cpc_bid_micros">>, supplied)

\* C7 (Spec): every request update_ad_group sends carries one operation
\* whose field mask is exactly the supplied fields (an empty name and a zero
\* bid included), each once, in the order status, name, cpc_bid_micros, and
\* is not empty.
C7_MaskIsSuppliedFields ==
  \A p \in Procs : frame[p].tool = "update_ad_group" =>
    \A i \in 1..Len(calls[p]) :
      LET operations == calls[p][i].request.operations
      IN  /\ Len(operations) = 1
          /\ operations[1].update_mask = SuppliedFields(frame[p].args)
          /\ operations[1].update_mask # <<>>

\* C7 witness: a request went out for an empty name and a zero bid, with the
\* mask naming both and not status.
C7_Witness ==
  \E p \in Procs :
    /\ frame[p].tool = "update_ad_group"
    /\ frame[p].args.status = None
    /\ frame[p].args.name = ""
    /\ frame[p].args.cpc_bid_micros = <<0>>
    /\ Len(calls[p]) = 1
    /\ calls[p][1].request.operations[1].update_mask = <<"name", "cpc_bid_micros">>

\* update_ad_group is running (or has ended) on no status, name or bid.
UpdateAdGroupAllAbsent(p) ==
  /\ frame[p].tool = "update_ad_group"
  /\ frame[p].args.status = None
  /\ frame[p].args.name = None
  /\ frame[p].args.cpc_bid_micros = NoInt

\* The invocation in slot p ended on the local error message without having
\* acquired a client handle, built a request object or issued a remote call.
FailedLocally(p, message) ==
  /\ pc[p] = "done"
  /\ result[p] = Raise("ToolError", message)
  /\ frame[p].ads_client = NoHandle
  /\ frame[p].built = <<>>
  /\ calls[p] = <<>>

\* C8 (Spec): update_ad_group with status, name and cpc_bid_micros all
\* absent fails with the local validation error at its first step, before
\* the client handle is acquired, before any request object is built and
\* without any remote call.
C8_UpdateAdGroupAllAbsentFailsLocally ==
  \A p \in Procs : (UpdateAdGroupAllAbsent(p) /\ pc[p] # "start") =>
    FailedLocally(p,
      <<"At least one of status, name, or cpc_bid_micros is required">>)

\* C8 witness: such an invocation has ended.
C8_Witness ==
  \E p \in Procs : UpdateAdGroupAllAbsent(p) /\ pc[p] = "done"

\* create_ad_group is running (or has ended) with status and cpc_bid_micros
\* left out.
CreateAdGroupDefaults(p) ==
  /\ frame[p].tool = "create_ad_group"
  /\ frame[p].args.status = None
  /\ frame[p].args.cpc_bid_micros = NoInt

EmptyKeywords(p) ==
  /\ frame[p].tool \in {"add_keywords", "add_negative_keywords"}
  /\ frame[p].args.keywords = <<>>

\* C10 (Spec): add_keywords and add_negative_keywords with keywords = []
\* fail with "keywords must not be empty" at their first step, before the
\* client handle is acquired, before any request object is built and
\* without any remote call.
C10_EmptyKeywordsFailLocally ==
  \A p \in Procs : (EmptyKeywords(p) /\ pc[p] # "start") =>
    FailedLocally(p, <<"keywords must not be empty">>)

\* C10 witness: such an invocation has ended.
C10_Witness ==
  \E p \in Procs : EmptyKeywords(p) /\ pc[p] = "done"

\* The last remote call of slot p's invocation raised a fault.
LastCallFaulted(p) ==
  /\ Len(calls[p]) > 0
  /\ calls[p][Len(calls[p])].fault # <<>>

\* message is the reasons, each once and in their order, one per line.
OneLinePerReason(message, reasons) ==
  /\ Len(message) = 2 * Len(reasons) - 1
  /\ \A i \in 1..Len(reasons) : message[2 * i - 1] = reasons[i]
  /\ \A i \in 1..(Len(reasons) - 1) : message[2 * i] = "\n"

\* C11 (Spec): a remote fault carrying n >= 1 failure reasons is surfaced by
\* every handler as exactly one ToolError whose message is the n reasons in
\* their original order, one per line, and the handler returns no result.
C11_FaultIsOneToolError ==
  \A p \in Procs : (pc[p] = "done" /\ LastCallFaulted(p)) =>
    /\ result[p].kind = "raise"
    /\ result[p].type = "ToolError"
    /\ OneLinePerReason(result[p].message, calls[p][Len(calls[p])].fault)

\* C12 (Spec): no retries and immediate propagation: within one invocation
\* no remote call is issued twice, a call that faulted is the last one the
\* invocation issued, and the invocation has then ended by raising.
C12_NoRetryAfterFault ==
  \A p \in Procs :
    /\ \A i, j \in 1..Len(calls[p]) :
         i < j => calls[p][i].method # calls[p][j].method
    /\ \A i \in 1..Len(calls[p]) :
         calls[p][i].fault # <<>> =>
           /\ i = Len(calls[p])
           /\ pc[p] = "done"
           /\ result[p].kind = "raise"

\* C12 witness: a customer list job whose add-operations call faulted has
\* ended after its two calls, the run never triggered.
C12_Witness ==
  \E p \in Procs :
    /\ frame[p].tool \in JobTools
    /\ pc[p] = "done"
    /\ Len(calls[p]) = 2
    /\ calls[p][2].method = "add_offline_user_data_job_operations"
    /\ calls[p][2].fault # <<>>

\* The service rejected the conversion upload_offline_conversion sent: the
\* call returned, with the rejection in the response's partial failure error.
ConversionRejected(p) ==
  /\ frame[p].tool = "upload_offline_conversion"
  /\ Len(calls[p]) = 1
  /\ calls[p][1].fault = <<>>
  /\ calls[p][1].response.partial_failure_error # <<>>

\* C13 (Spec): no failure is silently swallowed: whenever the service
\* rejects the conversion sent by upload_offline_conversion, the invocation
\* ends with an error raised to the caller, never with a result mapping.
C13_RejectedConversionRaises ==
  \A p \in Procs : (ConversionRejected(p) /\ pc[p] = "done") =>
    result[p].kind = "raise"

\* The query a finished invocation of a query tool sent.
SentQuery(p) == calls[p][1].request.query

QueryToolDone(p, tool) ==
  /\ frame[p].tool = tool
  /\ pc[p] = "done"
  /\ Len(calls[p]) = 1

\* items, each followed by separator except the last.
RECURSIVE Separated(_, _)
Separated(items, separator) ==
  IF Len(items) <= 1 THEN items
  ELSE <<Head(items), separator>> \o Separated(Tail(items), separator)

\* keyword and the separated items when the optional list is supplied and
\* not empty, nothing otherwise.
Clause(keyword, list, separator) ==
  IF list = NoList THEN <<>>
  ELSE IF Len(list[1]) = 0 THEN <<>>
  ELSE <<keyword>> \o Separated(list[1], separator)

LimitClause(limit) ==
  IF limit = NoInt THEN <<>> ELSE <<" LIMIT ">> \o IntToStr(limit[1])

ExpectedQuery(args) ==
  <<"SELECT ">> \o Separated(args.fields, ", ")
    \o <<" FROM ", args.resource>>
    \o Clause(" WHERE ", args.conditions, " AND ")
    \o Clause(" ORDER BY ", args.orderings, ", ")
    \o LimitClause(args.limit)

\* C14 (SpecQuery): the query search_ads sends and returns is, up to the one
\* piece preprocessing appends, exactly 'SELECT ' + fields joined by ', ' +
\* ' FROM ' + resource, then ' WHERE ' + conditions joined by ' AND ' only
\* when conditions is non-empty, ' ORDER BY ' + orderings joined by ', ' only
\* when orderings is non-empty, and ' LIMIT <n>' exactly when a limit is
\* supplied, 0 included.
C14_SearchAdsQueryText ==
  \A p \in Procs : QueryToolDone(p, "search_ads") =>
    LET expected == ExpectedQuery(frame[p].args)
    IN  /\ Len(SentQuery(p)) = Len(expected) + 1
        /\ SubSeq(SentQuery(p), 1, Len(expected)) = expected
        /\ result[p].kind = "return" => result[p].value.query = SentQuery(p)

\* C14 witness: search_ads has sent a query built from two conditions, two
\* orderings and the limit 0.
C14_Witness ==
  \E p \in Procs :
    /\ QueryToolDone(p, "search_ads")
    /\ frame[p].args.limit = <<0>>
    /\ frame[p].args.conditions # NoList
    /\ Len(frame[p].args.conditions[1]) = 2
    /\ frame[p].args.orderings # NoList
    /\ Len(frame[p].args.orderings[1]) = 2

\* C15 (SpecQuery): preprocess_gaql is idempotent: applied to the query
\* either tool sent, which is its own output on the raw or built query, it
\* returns that query unchanged.
C15_PreprocessIdempotent ==
  \A p \in Procs :
    (QueryToolDone(p, "execute_gaql") \/ QueryToolDone(p, "search_ads")) =>
      preprocess_gaql(SentQuery(p)) = SentQuery(p)

\* C15 witness: a raw query has been sent with the flag appended to it, so
\* that a second application had something to append to.
C15_Witness ==
  \E p \in Procs :
    /\ QueryToolDone(p, "execute_gaql")
    /\ Len(SentQuery(p)) = Len(frame[p].args.query) + 1
    /\ SentQuery(p)[Len(SentQuery(p))] = " omit_unselected_resource_names=true"

\* The number of occurrences of PARAMETERS in a query.
RECURSIVE ParametersCount(_)
ParametersCount(query) ==
  IF Len(query) = 0 THEN 0
  ELSE (IF "PARAMETERS" \in Mentions(Head(query)) THEN 1 ELSE 0)
       + ParametersCount(Tail(query))

HasPiece(query, piece) == \E i \in 1..Len(query) : query[i] = piece

\* The raw query has a PARAMETERS clause with include_drafts and does not
\* mention omit_unselected_resource_names.
IncludeDraftsClause(query) ==
  /\ HasPiece(query, " PARAMETERS include_drafts=true")
  /\ ~In("omit_unselected_resource_names", query)

\* C16 (SpecQuery): a query with a PARAMETERS clause with include_drafts that
\* does not mention omit_unselected_resource_names is sent with
\* ' omit_unselected_resource_names=true' appended and with as many
\* PARAMETERS keywords as it came with.
C16_FlagJoinsExistingClause ==
  \A p \in Procs :
    (QueryToolDone(p, "execute_gaql")
       /\ IncludeDraftsClause(frame[p].args.query)) =>
      /\ SentQuery(p) =
           frame[p].args.query \o <<" omit_unselected_resource_names=true">>
      /\ ParametersCount(SentQuery(p)) = ParametersCount(frame[p].args.query)

\* C16 witness: such a query, its clause not the last piece, has been sent.
C16_Witness ==
  \E p \in Procs :
    /\ QueryToolDone(p, "execute_gaql")
    /\ IncludeDraftsClause(frame[p].args.query)
    /\ frame[p].args.query[2] = " PARAMETERS include_drafts=true"
    /\ Len(frame[p].args.query) = 3

\* C17 (SpecQuery): a query that does not mention
\* omit_unselected_resource_names and does not contain both PARAMETERS and
\* include_drafts is sent followed by a new
\* ' PARAMETERS omit_unselected_resource_names=true' clause, also when it has
\* a PARAMETERS clause with another parameter; a query that mentions the flag
\* is sent unchanged.
C17_NewClauseOrUnchanged ==
  \A p \in Procs : QueryToolDone(p, "execute_gaql") =>
    LET query == frame[p].args.query
    IN  /\ (~In("omit_unselected_resource_names", query)
              /\ ~(In("PARAMETERS", query) /\ In("include_drafts", query))) =>
             SentQuery(p) =
               query \o <<" PARAMETERS omit_unselected_resource_names=true">>
        /\ In("omit_unselected_resource_names", query) =>
             SentQuery(p) = query

\* C17 witness: a query with a PARAMETERS clause with another parameter has
\* been sent with the new clause after it.
C17_Witness ==
  \E p \in Procs :
    /\ QueryToolDone(p, "execute_gaql")
    /\ HasPiece(frame[p].args.query, " PARAMETERS other_parameter=true")
    /\ ~In("include_drafts", frame[p].args.query)
    /\ Len(SentQuery(p)) = Len(frame[p].args.query) + 1

\* C18 (Spec): create_campaign issues the budget creation first, for a
\* budget named '<campaign name> Budget', and the campaign creation only as
\* a second call after the budget call returned; the campaign references
\* the resource name the budget call returned, and the result echoes both
\* returned resource names, each id being the name's last segment.
C18_BudgetThenCampaign ==
  \A p \in Procs : frame[p].tool = "create_campaign" =>
    /\ Len(calls[p]) <= 2
    /\ Len(calls[p]) >= 1 =>
         /\ calls[p][1].method = "mutate_campaign_budgets"
         /\ Len(calls[p][1].request.operations) = 1
         /\ calls[p][1].request.operations[1].name =
              <<frame[p].args.name, " Budget">>
    /\ Len(calls[p]) = 2 =>
         /\ calls[p][1].fault = <<>>
         /\ calls[p][2].method = "mutate_campaigns"
         /\ Len(calls[p][2].request.operations) = 1
         /\ calls[p][2].request.operations[1].campaign_budget =
              calls[p][1].response[1]
    /\ (pc[p] = "done" /\ result[p].kind = "return") =>
         /\ Len(calls[p]) = 2
         /\ LET budget == calls[p][1].response[1]
                campaign == calls[p][2].response[1]
            IN  result[p].value =
                  [campaign_resource_name |-> campaign,
                   campaign_id |-> campaign[Len(campaign)],
                   budget_resource_name |-> budget,
                   budget_id |-> budget[Len(budget)]]

\* C18 witness: create_campaign has returned after a budget call and a
\* campaign call to which the service gave different ids.
C18_Witness ==
  \E p \in Procs :
    /\ frame[p].tool = "create_campaign"
    /\ pc[p] = "done"
    /\ result[p].kind = "return"
    /\ result[p].value.budget_id = "502"
    /\ result[p].value.campaign_id = "501"

\* C19 (Spec): the budget create_campaign sends carries the caller's
\* budget_amount_micros whenever one is supplied, 0 included, and 1,000,000
\* only when it is left out.
C19_BudgetAmountAsSupplied ==
  \A p \in Procs :
    (frame[p].tool = "create_campaign" /\ Len(calls[p]) >= 1) =>
      calls[p][1].request.operations[1].amount_micros =
        IF frame[p].args.budget_amount_micros = NoInt
        THEN 1000000
        ELSE frame[p].args.budget_amount_micros[1]

LookupTools == {"update_ad_status", "update_campaign_budget"}

\* What C20 says of each of the two handlers: the message of its not-found
\* error, its mutate method, the resource the first row leads to, its mask.
NotFoundMessage(p) ==
  IF frame[p].tool = "update_ad_status"
  THEN <<"Ad not found: ", frame[p].args.ad_id>>
  ELSE <<"Campaign not found: ", frame[p].args.campaign_id>>

LookupMutateMethod(p) ==
  IF frame[p].tool = "update_ad_status"
  THEN "mutate_ad_group_ads" ELSE "mutate_campaign_budgets"

FirstRowResource(p) ==
  IF frame[p].tool = "update_ad_status"
  THEN <<"customers", frame[p].args.customer_id, "adGroupAds">>
         \o IntToStr(calls[p][1].response[1])
         \o <<"~", frame[p].args.ad_id>>
  ELSE calls[p][1].response[1]

LookupMask(p) ==
  IF frame[p].tool = "update_ad_status"
  THEN <<"status">> ELSE <<"amount_micros">>

\* C20 (Spec): update_ad_status and update_campaign_budget issue one lookup
\* query, as their first call; when it returns no row they fail with the
\* not-found error and issue no mutate; a mutate is issued at most once,
\* after a lookup that returned a row, on the resource the first row leads
\* to and with a field mask of exactly one path; and a lookup that returned
\* a row is followed by the mutate unless the status name is not an enum
\* member.
C20_LookupThenMutate ==
  \A p \in Procs :
    (frame[p].tool \in LookupTools /\ Len(calls[p]) >= 1) =>
      /\ calls[p][1].method = "search"
      /\ Len(calls[p]) <= 2
      /\ (calls[p][1].fault = <<>> /\ calls[p][1].response = <<>>) =>
           /\ Len(calls[p]) = 1
           /\ pc[p] = "done"
           /\ result[p] = Raise("ToolError", NotFoundMessage(p))
      /\ Len(calls[p]) = 2 =>
           /\ calls[p][1].fault = <<>>
           /\ calls[p][1].response # <<>>
           /\ calls[p][2].method = LookupMutateMethod(p)
           /\ Len(calls[p][2].request.operations) = 1
           /\ calls[p][2].request.operations[1].resource_name =
                FirstRowResource(p)
           /\ calls[p][2].request.operations[1].update_mask = LookupMask(p)
      /\ (pc[p] = "done" /\ Len(calls[p]) = 1 /\ calls[p][1].fault = <<>>
            /\ calls[p][1].response # <<>>) =>
           InvalidEnumArg(frame[p].tool, frame[p].args)

\* C20 witness: a lookup that returned two rows was followed by the budget
\* mutate.
C20_Witness ==
  \E p \in Procs :
    /\ frame[p].tool = "update_campaign_budget"
    /\ Len(calls[p]) = 2
    /\ Len(calls[p][1].response) = 2

\* The identifiers a customer list invocation was given.
GivenEmails(p) ==
  IF frame[p].args.emails = NoList THEN <<>> ELSE frame[p].args.emails[1]
GivenPhoneNumbers(p) ==
  IF frame[p].args.phone_numbers = NoList THEN <<>>
  ELSE frame[p].args.phone_numbers[1]

\* C21 (Spec): add_customer_list_members and remove_customer_list_members
\* issue at most three calls, in the order create job, add operations, run;
\* add operations goes out with partial failure enabled on the resource name
\* the create call returned, with one operation per identifier, emails
\* first, all create for add and all remove for remove; run is issued only
\* after add operations returned, on the same resource name; and the result,
\* returned as soon as run returned, has operation_count = len(emails) +
\* len(phone_numbers).
C21_ThreeStepJob ==
  \A p \in Procs : frame[p].tool \in JobTools =>
    LET n == Len(calls[p])
        emails == Len(GivenEmails(p))
        phones == Len(GivenPhoneNumbers(p))
        kind == IF frame[p].tool = "add_customer_list_members"
                THEN "create" ELSE "remove"
    IN  /\ n <= 3
        /\ n >= 1 => calls[p][1].method = "create_offline_user_data_job"
        /\ n >= 2 =>
             /\ calls[p][1].fault = <<>>
             /\ calls[p][2].method = "add_offline_user_data_job_operations"
             /\ calls[p][2].request.enable_partial_failure = TRUE
             /\ calls[p][2].request.resource_name = calls[p][1].response[1]
             /\ LET operations == calls[p][2].request.operations
                IN  /\ Len(operations) = emails + phones
                    /\ \A i \in 1..Len(operations) :
                         /\ operations[i].kind = kind
                         /\ Len(operations[i].user_identifiers) = 1
                         /\ DOMAIN operations[i].user_identifiers[1] =
                              IF i <= emails THEN {"hashed_email"}
                              ELSE {"hashed_phone_number"}
        /\ n = 3 =>
             /\ calls[p][2].fault = <<>>
             /\ calls[p][3].method = "run_offline_user_data_job"
             /\ calls[p][3].request.resource_name = calls[p][1].response[1]
        /\ (pc[p] = "done" /\ result[p].kind = "return") =>
             /\ n = 3
             /\ result[p].value.operation_count = emails + phones
             /\ result[p].value.offline_user_data_job_resource_name =
                  calls[p][1].response[1]
        /\ (n = 3 /\ calls[p][3].fault = <<>>) =>
             (pc[p] = "done" /\ result[p].kind = "return")

\* C21 witness: remove_customer_list_members has returned after its three
\* calls with two emails and one phone number.
C21_Witness ==
  \E p \in Procs :
    /\ frame[p].tool = "remove_customer_list_members"
    /\ pc[p] = "done"
    /\ result[p].kind = "return"
    /\ result[p].value.operation_count = 3

\* The digest an operation of the add request carries.
SentDigest(operation) ==
  LET identifier == operation.user_identifiers[1]
  IN  IF "hashed_email" \in DOMAIN identifier
      THEN identifier.hashed_email
      ELSE identifier.hashed_phone_number

\* A text in normalized form: no whitespace and no upper-case letter.
IsNormalized(text) ==
  \A i \in 1..Len(text) : ~IsSpace(text[i]) /\ text[i] \notin {"A", "X"}

\* Two characters that differ at most in letter case.
SameLetter(a, b) ==
  \/ a = b
  \/ {a, b} = {"A", "a"}
  \/ {a, b} = {"X", "x"}

\* Two texts that differ only in letter case or in whitespace anywhere.
SameIdentifier(a, b) ==
  LET NotSpace(c) == ~IsSpace(c)
      x == SelectSeq(a, NotSpace)
      y == SelectSeq(b, NotSpace)
  IN  /\ Len(x) = Len(y)
      /\ \A i \in 1..Len(x) : SameLetter(x[i], y[i])

\* C22 (Spec): every identifier in the add request of a customer list job is
\* the digest of a normalized text that differs from the identifier given
\* only in letter case and whitespace, never the text given; two identifiers
\* given that differ only in letter case or whitespace are sent as the same
\* digest; and normalizing the normalized text again gives the same digest.
C22_DigestOfNormalizedForm ==
  \A p \in Procs :
    (frame[p].tool \in JobTools /\ Len(calls[p]) >= 2) =>
      LET given == GivenEmails(p) \o GivenPhoneNumbers(p)
          operations == calls[p][2].request.operations
          sent(i) == SentDigest(operations[i])
      IN  /\ Len(operations) = Len(given)
          /\ \A i \in 1..Len(given) :
               /\ DOMAIN sent(i) = {"sha256"}
               /\ IsNormalized(sent(i).sha256)
               /\ SameIdentifier(sent(i).sha256, given[i])
               /\ _normalize_and_hash(sent(i).sha256, TRUE) = sent(i)
          /\ \A i, j \in 1..Len(given) :
               SameIdentifier(given[i], given[j]) => sent(i) = sent(j)

\* C22 witness: two emails that differ in letter case and in whitespace at
\* the ends and inside have been sent, as one digest.
C22_Witness ==
  \E p \in Procs :
    /\ frame[p].tool \in JobTools
    /\ Len(calls[p]) >= 2
    /\ Len(GivenEmails(p)) = 2
    /\ GivenEmails(p)[1] # GivenEmails(p)[2]
    /\ SameIdentifier(GivenEmails(p)[1], GivenEmails(p)[2])

\* The text of each asset of a list, in order.
AssetTexts(assets) == [i \in 1..Len(assets) |-> assets[i].text]

\* C23 (Spec): every request create_responsive_search_ad sends carries one
\* create operation whose status is PAUSED, with one headline asset per
\* headline given and one description asset per description given, in the
\* order given.
C23_NewAdIsPaused ==
  \A p \in Procs :
    (frame[p].tool = "create_responsive_search_ad" /\ Len(calls[p]) >= 1) =>
      /\ calls[p][1].method = "mutate_ad_group_ads"
      /\ Len(calls[p][1].request.operations) = 1
      /\ LET ad == calls[p][1].request.operations[1]
         IN  /\ ad.kind = "create"
             /\ ad.status = "PAUSED"
             /\ AssetTexts(ad.headlines) = frame[p].args.headlines
             /\ AssetTexts(ad.descriptions) = frame[p].args.descriptions

\* C23 witness: an ad with three headlines and two descriptions has been
\* created.
C23_Witness ==
  \E p \in Procs :
    /\ frame[p].tool = "create_responsive_search_ad"
    /\ pc[p] = "done"
    /\ result[p].kind = "return"
    /\ Len(frame[p].args.headlines) = 3
    /\ Len(frame[p].args.descriptions) = 2

\* The date fields generate_keyword_ideas was given.
AnyDateGiven(args) ==
  \/ args.start_year # NoInt
  \/ args.start_month # None
  \/ args.end_year # NoInt
  \/ args.end_month # None

\* The request generate_keyword_ideas has sent.
IdeasRequestSent(p) ==
  /\ frame[p].tool = "generate_keyword_ideas"
  /\ Len(calls[p]) = 1

\* The range the request carries (when it carries one).
SentRange(p) == calls[p][1].request.historical_metrics_options[1]

\* The number of a month name, and the number of months a range spans.
MonthNumber(name) ==
  CHOOSE i \in 1..Len(_VALID_MONTHS) : _VALID_MONTHS[i] = name
MonthsSpanned(range) ==
  12 * (range.end.year - range.start.year)
    + MonthNumber(range.end.month) - MonthNumber(range.start.month) + 1

\* C24 as stated (SpecIdeas): when at least one date field is given, the
\* omitted fields are defaulted to the trailing 12 months ending at the
\* current month: an omitted end is the current year and month, and with
\* both start fields and both end fields filled by default the range spans
\* twelve months; when no date field is given the request has no range.
C24_TrailingTwelveMonths ==
  \A p \in Procs : IdeasRequestSent(p) =>
    LET args == frame[p].args
        now == frame[p].local
        options == calls[p][1].request.historical_metrics_options
    IN  /\ ~AnyDateGiven(args) => options = <<>>
        /\ AnyDateGiven(args) =>
             /\ Len(options) = 1
             /\ args.end_year = NoInt => SentRange(p).end.year = now.year
             /\ args.end_month = None =>
                  SentRange(p).end.month = _VALID_MONTHS[now.month]
             /\ (args.start_year = NoInt /\ args.start_month = None
                   /\ args.end_month = None
                   /\ SentRange(p).end.year = now.year) =>
                  MonthsSpanned(SentRange(p)) = 12

\* C24 amended (SpecIdeas): when at least one date field is given, each
\* omitted field takes its own default: start_year the year before the
\* current one, start_month JANUARY, end_year the current year, end_month
\* the current month; a field given is carried as given (a month name in
\* upper case); when no date field is given the request has no range.
C24_DefaultsPerField ==
  \A p \in Procs : IdeasRequestSent(p) =>
    LET args == frame[p].args
        now == frame[p].local
        options == calls[p][1].request.historical_metrics_options
    IN  /\ ~AnyDateGiven(args) => options = <<>>
        /\ AnyDateGiven(args) =>
             /\ Len(options) = 1
             /\ SentRange(p).start.year =
                  IF args.start_year = NoInt THEN now.year - 1
                  ELSE args.start_year[1]
             /\ args.start_month = None => SentRange(p).start.month = "JANUARY"
             /\ args.start_month = "march" => SentRange(p).start.month = "MARCH"
             /\ SentRange(p).end.year =
                  IF args.end_year = NoInt THEN now.year
                  ELSE args.end_year[1]
             /\ SentRange(p).end.month =
                  IF args.end_month = None THEN _VALID_MONTHS[now.month]
                  ELSE args.end_month

\* C24 witness: a request has gone out in November with only end_year
\* given, its range running from January of the year before.
C24_Witness ==
  \E p \in Procs :
    /\ IdeasRequestSent(p)
    /\ frame[p].local.month = 11
    /\ frame[p].args.end_year # NoInt
    /\ frame[p].args.start_year = NoInt
    /\ frame[p].args.start_month = None
    /\ frame[p].args.end_month = None
    /\ MonthsSpanned(SentRange(p)) = 23

\* The seeds generate_keyword_ideas was given: a list with elements, a URL
\* with characters.
KeywordsGiven(args) == args.keywords # <<>>
PageUrlGiven(args) == args.page_url \notin {None, ""}

\* C25 (SpecIdeas): every request generate_keyword_ideas sends has exactly
\* one seed variant: keyword_and_url_seed with the URL and all keywords when
\* both are given, keyword_seed when only keywords are, url_seed when only
\* page_url is; with neither given the invocation ends with the validation
\* error, holding no client handle and having issued no remote call.
C25_OneSeedVariant ==
  \A p \in Procs : frame[p].tool = "generate_keyword_ideas" =>
    LET args == frame[p].args
    IN  /\ Len(calls[p]) >= 1 =>
             LET seed == calls[p][1].request.seed
             IN  /\ Cardinality(DOMAIN seed) = 1
                 /\ (KeywordsGiven(args) /\ PageUrlGiven(args)) =>
                      seed = [keyword_and_url_seed |->
                                [url |-> args.page_url,
                                 keywords |-> args.keywords]]
                 /\ (KeywordsGiven(args) /\ ~PageUrlGiven(args)) =>
                      seed = [keyword_seed |-> [keywords |-> args.keywords]]
                 /\ (~KeywordsGiven(args) /\ PageUrlGiven(args)) =>
                      seed = [url_seed |-> [url |-> args.page_url]]
        /\ (~KeywordsGiven(args) /\ ~PageUrlGiven(args)) =>
             /\ calls[p] = <<>>
             /\ frame[p].ads_client = NoHandle
             /\ pc[p] \in {"start", "done"}
             /\ pc[p] = "done" =>
                  result[p] =
                    Raise("ToolError",
                          <<"At least one of keywords or page_url is required">>)

\* C25 witness: a request with keywords and an empty page_url has gone out.
C25_Witness ==
  \E p \in Procs :
    /\ IdeasRequestSent(p)
    /\ KeywordsGiven(frame[p].args)
    /\ frame[p].args.page_url = ""

\* A query tool has returned.
QueryToolReturned(p) ==
  /\ frame[p].tool \in {"execute_gaql", "search_ads"}
  /\ pc[p] = "done"
  /\ result[p].kind = "return"

\* The rows of a stream in stream order, each with the field mask of its
\* batch.
RECURSIVE RowsInOrder(_)
RowsInOrder(stream) ==
  IF Len(stream) = 0 THEN <<>>
  ELSE [i \in 1..Len(stream[1].results) |->
          [row |-> stream[1].results[i], paths |-> stream[1].field_mask]]
       \o RowsInOrder(Tail(stream))

\* C26 (SpecQuery): execute_gaql and search_ads return the same 'data' for
\* the same stream, whatever the query: for either tool 'data' has one
\* mapping per row of the stream, in stream order across batches, keyed by
\* exactly the field mask paths of the row's batch, each value being
\* format_value of the row's attribute; and the 'query' search_ads returns
\* is the query it sent.
C26_SameNormalization ==
  \A p \in Procs : QueryToolReturned(p) =>
    LET rows == RowsInOrder(calls[p][1].response)
        data == result[p].value.data
    IN  /\ Len(data) = Len(rows)
        /\ \A k \in 1..Len(rows) :
             /\ DOMAIN data[k] =
                  {rows[k].paths[i] : i \in 1..Len(rows[k].paths)}
             /\ \A path \in DOMAIN data[k] :
                  data[k][path] =
                    format_value(get_nested_attr(rows[k].row, path))
        /\ frame[p].tool = "search_ads" =>
             result[p].value.query = calls[p][1].request.query

\* C26 witness: search_ads has returned the rows of a stream of two batches
\* with different field masks.
C26_Witness ==
  \E p \in Procs :
    /\ QueryToolReturned(p)
    /\ frame[p].tool = "search_ads"
    /\ Len(calls[p][1].response) = 2
    /\ Len(result[p].value.data) = 3

\* A returned value with no repeated container, message or enum member in
\* it, at any depth.
RECURSIVE Plain(_)
Plain(value) ==
  /\ value.type \notin {"repeated", "message", "enum"}
  /\ value.type = "list" =>
       \A i \in 1..Len(value.items) : Plain(value.items[i])
  /\ value.type = "dict" =>
       \A i \in 1..Len(value.fields) : Plain(value.fields[i].value)

\* What C27 says of a value and of what it was formatted as.
FormattedAs(value, formatted) ==
  /\ value.type = "repeated" =>
       /\ formatted.type = "list"
       /\ Len(formatted.items) = Len(value.items)
       /\ \A i \in 1..Len(value.items) :
            formatted.items[i] = format_value(value.items[i])
  /\ value.type = "message" =>
       /\ formatted.type = "dict"
       /\ Len(formatted.fields) = Len(value.fields)
       /\ \A i \in 1..Len(value.fields) :
            value.fields[i].value.type = "enum" =>
              formatted.fields[i].value = StrValue(value.fields[i].value.name)
  /\ value.type = "enum" => formatted = StrValue(value.name)
  /\ value.type \notin {"repeated", "message", "enum"} => formatted = value
  /\ Plain(formatted)

\* C27 (SpecQuery): every value a query tool returns is format_value of the
\* row's attribute by the first case that matches: a repeated container as
\* the list of its formatted elements, in order and of the same length; a
\* message as a dict with its enum fields by name; an enum member as its
\* name; any other value unchanged; and no returned value contains a
\* repeated container, a message or an enum member.
C27_FormatValueCases ==
  \A p \in Procs : QueryToolReturned(p) =>
    LET rows == RowsInOrder(calls[p][1].response)
        data == result[p].value.data
    IN  \A k \in 1..Len(data) : \A path \in DOMAIN data[k] :
          FormattedAs(get_nested_attr(rows[k].row, path), data[k][path])

\* C27 witness: a repeated container of two messages, one of them nested,
\* has been returned as a list of two dicts.
C27_Witness ==
  \E p \in Procs :
    /\ QueryToolReturned(p)
    /\ Len(result[p].value.data) = 1
    /\ "ad_group_ad.ad" \in DOMAIN result[p].value.data[1]
    /\ result[p].value.data[1]["ad_group_ad.ad"].type = "list"
    /\ Len(result[p].value.data[1]["ad_group_ad.ad"].items) = 2
    /\ result[p].value.data[1]["ad_group_ad.ad"].items[2].type = "dict"

\* The handler in slot p has a list precondition and was called with
\* arguments that violate it.
ListPreconditionViolated(p) ==
  CASE frame[p].tool = "create_responsive_search_ad" ->
         \/ frame[p].args.headlines = <<>>
         \/ frame[p].args.descriptions = <<>>
         \/ frame[p].args.final_urls = <<>>
    [] frame[p].tool \in JobTools ->
         GivenEmails(p) = <<>> /\ GivenPhoneNumbers(p) = <<>>
    [] OTHER -> FALSE

\* The message of the first precondition violated.
FirstViolation(p) ==
  IF frame[p].tool \in JobTools
  THEN "At least one of emails or phone_numbers is required"
  ELSE IF frame[p].args.headlines = <<>> THEN "headlines must not be empty"
  ELSE IF frame[p].args.descriptions = <<>>
  THEN "descriptions must not be empty"
  ELSE "final_urls must not be empty"

\* C28 (Spec): create_responsive_search_ad called with empty headlines,
\* descriptions or final_urls, and add_customer_list_members and
\* remove_customer_list_members called with neither emails nor phone
\* numbers, end in their first step with the validation error of the first
\* violation, having acquired no client handle and issued no remote call,
\* the cached handle and the login_customer_id of every handle unchanged.
C28_ListPrecheckFirst ==
  [][\A p \in Procs :
       (pc[p] = "start" /\ ListPreconditionViolated(p)) =>
         /\ pc'[p] = "done"
         /\ result'[p] = Raise("ToolError", <<FirstViolation(p)>>)
         /\ calls'[p] = <<>>
         /\ frame'[p].ads_client = NoHandle
         /\ _ADS_CLIENT' = _ADS_CLIENT
         /\ heap' = heap]_vars

\* C28 witness: with a handle cached, create_responsive_search_ad has ended
\* on empty descriptions, final_urls being empty too.
C28_Witness ==
  \E p \in Procs :
    /\ frame[p].tool = "create_responsive_search_ad"
    /\ pc[p] = "done"
    /\ frame[p].args.headlines # <<>>
    /\ frame[p].args.descriptions = <<>>
    /\ frame[p].args.final_urls = <<>>
    /\ result[p] = Raise("ToolError", <<"descriptions must not be empty">>)
    /\ _ADS_CLIENT # NoHandle

\* The invocation in slot p came with an access token and is running.
TokenInvocation(p) == pc[p] # "idle" /\ frame[p].access_token \notin {None, ""}

\* The cached handle and what it holds are the same before and after a step.
CacheUntouched ==
  /\ _ADS_CLIENT' = _ADS_CLIENT
  /\ _ADS_CLIENT # NoHandle =>
       /\ _ADS_CLIENT \in DOMAIN heap'
       /\ heap'[_ADS_CLIENT] = heap[_ADS_CLIENT]

\* C29 (Spec): no step of an invocation that came with an access token
\* changes the cached handle or what it holds, its login_customer_id
\* included; the handle get_ads_client gives such an invocation is a new
\* one, not the cached one and not one that existed, with the login
\* customer id of the environment; and a get_ads_client call without token
\* that fails to resolve credentials leaves the cache unset.
C29_TokenPathLeavesCache ==
  [][\A p \in Procs :
       /\ TokenInvocation(p) => CacheUntouched
       /\ (TokenInvocation(p) /\ pc[p] = "get_ads_client"
             /\ pc'[p] # "done") =>
            /\ frame'[p].ads_client \notin DOMAIN heap
            /\ frame'[p].ads_client # _ADS_CLIENT'
            /\ heap'[frame'[p].ads_client].login_customer_id =
                 IF StripDashes(env[LoginEnv]) # ""
                 THEN StripDashes(env[LoginEnv]) ELSE None
       /\ (~TokenInvocation(p) /\ pc[p] = "get_ads_client"
             /\ _ADS_CLIENT = NoHandle /\ pc'[p] = "done") =>
            /\ result'[p].kind = "raise"
            /\ _ADS_CLIENT' = NoHandle]_vars

\* C29 witness: an invocation with an access token and the override 777 has
\* sent its call under 777 while the cached handle holds another login
\* customer id.
C29_Witness ==
  \E p \in Procs :
    /\ TokenInvocation(p)
    /\ Len(calls[p]) >= 1
    /\ calls[p][1].login_customer_id = "777"
    /\ _ADS_CLIENT # NoHandle
    /\ heap[_ADS_CLIENT].login_customer_id # "777"

\* C30 (Spec): create_campaign does not recover locally.  Once its budget
\* call has returned (which adds a budget on the remote service), the
\* campaign step ends the invocation; when it ends it with an error, either
\* no further call was issued (an enum name was invalid) or the one further
\* call is the campaign mutate that faulted; the budgets on the remote
\* service stay as they are, and no step ever takes one away, so that each
\* retry adds one more.
C30_NoLocalRecovery ==
  [][\A p \in Procs :
       /\ remote'.budgets >= remote.budgets
       /\ (frame[p].tool = "create_campaign" /\ pc[p] = "call"
             /\ pc'[p] = "campaign") =>
            /\ Len(calls'[p]) = 1
            /\ calls'[p][1].fault = <<>>
            /\ remote'.budgets = remote.budgets + 1
       /\ (frame[p].tool = "create_campaign" /\ pc[p] = "campaign") =>
            /\ pc'[p] = "done"
            /\ remote' = remote
            /\ result'[p].kind = "raise" =>
                 \/ calls'[p] = calls[p]
                 \/ /\ Len(calls'[p]) = 2
                    /\ calls'[p][2].method = "mutate_campaigns"
                    /\ calls'[p][2].fault # <<>>]_vars

\* C30 witness: a second create_campaign has failed on an invalid enum name
\* after its budget call, two budgets now being on the remote service.
C30_Witness ==
  \E p \in Procs :
    /\ frame[p].tool = "create_campaign"
    /\ pc[p] = "done"
    /\ result[p].kind = "raise"
    /\ Len(calls[p]) = 1
    /\ calls[p][1].fault = <<>>
    /\ remote.budgets = 2

====
